---- MODULE Spec2Model ----
(***************************************************************************)
(* Model of bevy_hsm: the state tree (src/src/state_tree.rs), the          *)
(* traversal strategies (src/src/state_traversal.rs) and the state history *)
(* (src/src/history.rs).                                                   *)
(***************************************************************************)
EXTENDS Integers, Sequences, FiniteSets, TLC

\* ---------------------------------------------------------------- bounds
NumEntities == 3
MaxCalls == 5
MaxCapacity == 2
MaxPushes == 4
NumIds == 2
NumContexts == 2
MaxBufferCalls == 4
MaxConditionSize == 5
MaxActionCalls == 5
NumMachines == 2
NumStates == 3
HistoryLen == 4
MaxSteps == 6
MaxQueueCalls == 4
MaxTicks == 3

Entity == 0 .. (NumEntities - 1)

\* ------------------------------------------------------- Option<Entity>
\* Option<T> is a sequence of length at most one: <<>> is None, <<e>> Some(e).
None == << >>
Some(e) == << e >>

\* ------------------------------------------------------ Vec<Entity> helpers
Contains(s, e) == \E i \in 1 .. Len(s) : s[i] = e

\* index of the first occurrence of e in s, 0 when there is none
FirstIndex(s, e) ==
    IF Contains(s, e) THEN CHOOSE i \in 1 .. Len(s) : s[i] = e /\ \A j \in 1 .. (i - 1) : s[j] # e
    ELSE 0

\* Vec::remove(i)
RemoveAt(s, i) == [j \in 1 .. (Len(s) - 1) |-> IF j < i THEN s[j] ELSE s[j + 1]]

\* the loop "for (i, e) in v.iter().enumerate() { if *e == x { v.remove(i); break; } }"
RemoveFirst(s, e) == IF Contains(s, e) THEN RemoveAt(s, FirstIndex(s, e)) ELSE s

Reverse(s) == [i \in 1 .. Len(s) |-> s[Len(s) + 1 - i]]

Range(s) == {s[i] : i \in 1 .. Len(s)}

\* ------------------------------------------------------ TraversalStrategy
SequentialTraversal == "SequentialTraversal"
ReverseTraversal == "ReverseTraversal"
TraversalStrategy == {SequentialTraversal, ReverseTraversal}

\* impl Default for TraversalStrategy
TraversalStrategy_default == SequentialTraversal

traverse(strategy, children) ==
    IF strategy = SequentialTraversal THEN children ELSE Reverse(children)

\* ---------------------------------------------------------- StateTreeNode
StateTreeNode_new(super_state, traversal) ==
    [super_state |-> super_state, traversal |-> traversal, sub_states |-> << >>]

\* push that appends without removing an earlier occurrence
StateTreeNode_push_no_dedup(node, state) ==
    [node EXCEPT !.sub_states = Append(node.sub_states, state)]

StateTreeNode_push(node, state) ==
    [node EXCEPT !.sub_states = Append(RemoveFirst(node.sub_states, state), state)]

\* ------------------------------------------------------ HashMap<Entity, _>
\* a map is a function whose domain is the set of keys present
EmptyMap == [x \in {} |-> 0]
Insert(m, k, v) == [x \in (DOMAIN m) \cup {k} |-> IF x = k THEN v ELSE m[x]]
RemoveKey(m, k) == [x \in (DOMAIN m) \ {k} |-> m[x]]

\* -------------------------------------------------------------- StateTree
StateTree_new(r, traversal) ==
    [root |-> r, tree |-> Insert(EmptyMap, r, StateTreeNode_new(None, traversal))]

contains(t, state) == state \in DOMAIN t

\* StateTree::get: Option<&[Entity]>
get(t, state) == IF state \in DOMAIN t THEN Some(t[state].sub_states) ELSE None

has_link(t, from, to) ==
    IF get(t, from) # None THEN Contains(get(t, from)[1], to) ELSE FALSE

\* add that inserts the child's node before it looks the parent up
add_inserts_first(t, from, to, traversal) ==
    IF has_link(t, to, from) THEN [tree |-> t, ret |-> FALSE]
    ELSE IF from \in DOMAIN t
         THEN [tree |-> Insert([t EXCEPT ![from] = StateTreeNode_push(t[from], to)],
                               to, StateTreeNode_new(Some(from), traversal)),
               ret |-> TRUE]
         ELSE [tree |-> Insert(t, to, StateTreeNode_new(Some(from), traversal)),
               ret |-> FALSE]

\* StateTree::add: the tree after the call and the returned boolean
add(t, from, to, traversal) ==
    IF has_link(t, to, from) THEN [tree |-> t, ret |-> FALSE]
    ELSE IF from \in DOMAIN t
         THEN [tree |-> Insert([t EXCEPT ![from] = StateTreeNode_push(t[from], to)],
                               to, StateTreeNode_new(Some(from), traversal)),
               ret |-> TRUE]
         ELSE [tree |-> t, ret |-> FALSE]

get_super_state(t, state) == IF state \in DOMAIN t THEN t[state].super_state ELSE None

\* StateTree::extract_subtree: moves target_node and, recursively, the nodes of
\* its sub_states from self to new_tree.  st = [self, new_tree, panic]; an
\* unwrap() of a missing key panics and leaves both maps as they are by then.
RECURSIVE extract_children(_, _, _)
extract_subtree(st, target, target_node) ==
    LET after == extract_children(st, target_node.sub_states, 1)
    IN  IF after.panic THEN after
        ELSE [after EXCEPT !.new_tree = Insert(after.new_tree, target, target_node)]

\* the loop "for child in &target_node.sub_states" of extract_subtree, from index i
extract_children(st, sub_states, i) ==
    IF st.panic \/ i > Len(sub_states) THEN st
    ELSE LET child == sub_states[i]
         IN  IF child \notin DOMAIN st.self THEN [st EXCEPT !.panic = TRUE]
             ELSE extract_children(
                      extract_subtree([st EXCEPT !.self = RemoveKey(st.self, child)],
                                      child, st.self[child]),
                      sub_states, i + 1)

NoTree == [root |-> None, tree |-> EmptyMap]

\* StateTree::remove: the tree after the call, the returned Option<StateTree>
\* (ret is "Some" or "None", removed the returned tree) or "panic"
remove(t, from, to) ==
    IF from \in DOMAIN t
    THEN LET t1 == [t EXCEPT ![from].sub_states = RemoveFirst(t[from].sub_states, to)]
         IN  IF to \notin DOMAIN t1
             THEN [tree |-> t1, ret |-> "panic", removed |-> NoTree]
             ELSE LET node == [t1[to] EXCEPT !.super_state = None]
                      st == extract_subtree([self |-> RemoveKey(t1, to),
                                             new_tree |-> EmptyMap,
                                             panic |-> FALSE], to, node)
                  IN  IF st.panic
                      THEN [tree |-> st.self, ret |-> "panic", removed |-> NoTree]
                      ELSE [tree |-> st.self, ret |-> "Some",
                            removed |-> [root |-> Some(to), tree |-> st.new_tree]]
    ELSE [tree |-> t, ret |-> "None", removed |-> NoTree]

\* StateTree::path_iter: std::iter::successors over super_state.  The iterator is
\* infinite when the super_state links form a cycle; the first `fuel` items are
\* computed, and more than Cardinality(DOMAIN t) items repeat a state.
RECURSIVE successors(_, _, _)
successors(t, first, fuel) ==
    IF first = None \/ fuel = 0 THEN << >>
    ELSE << first[1] >> \o successors(t, get_super_state(t, first[1]), fuel - 1)

path_iter(t, target) ==
    successors(t, get_super_state(t, target), Cardinality(DOMAIN t) + 1)

\* path_iter(target) never ends
path_iter_diverges(t, target) == Len(path_iter(t, target)) > Cardinality(DOMAIN t)

\* ------------------------------------------------------------ TraversalIter
\* #[derive(Default)] struct TraversalIter { data, down, up }
TraversalIter_default == [data |-> << >>, down |-> 0, up |-> 0]

\* StateTree::traversal_iter (data is 1-indexed here: data[down + 1] is
\* self.data[self.down])
traversal_iter(t, state) ==
    IF state \in DOMAIN t
    THEN [data |-> traverse(t[state].traversal, t[state].sub_states),
          down |-> 0,
          up |-> Len(t[state].sub_states)]
    ELSE TraversalIter_default

\* Iterator::next: the iterator after the call and the returned Option<Entity>
TraversalIter_next(it) ==
    IF it.down >= it.up THEN [iter |-> it, ret |-> None]
    ELSE [iter |-> [it EXCEPT !.down = it.down + 1], ret |-> Some(it.data[it.down + 1])]

\* next_back that does not move `up`
TraversalIter_next_back_stuck(it) ==
    IF it.down >= it.up THEN [iter |-> it, ret |-> None]
    ELSE [iter |-> it, ret |-> Some(it.data[it.up])]

\* DoubleEndedIterator::next_back
TraversalIter_next_back(it) ==
    IF it.down >= it.up THEN [iter |-> it, ret |-> None]
    ELSE [iter |-> [it EXCEPT !.up = it.up - 1], ret |-> Some(it.data[it.up])]

\* ----------------------------------------------------------- StateHistory
HsmOnState == {"Enter", "Update", "Exit"}

\* HistoricalNode { id, on_state }
HistoricalNode == [id : 0 .. (NumIds - 1), on_state : HsmOnState]

DefaultMaxSize == 10

StateHistory_new(size) == [history |-> << >>, max_size |-> size]

\* impl Default for StateHistory
StateHistory_default == [history |-> << >>, max_size |-> DefaultMaxSize]

\* StateHistory::push; VecDeque::pop_front on an empty deque returns None
StateHistory_push(h, node) ==
    LET popped == IF Len(h.history) >= h.max_size
                  THEN (IF h.history = << >> THEN << >> ELSE Tail(h.history))
                  ELSE h.history
    IN  [h EXCEPT !.history = Append(popped, node)]

StateHistory_clear(h) == [h EXCEPT !.history = << >>]

\* ------------------------------------------------- HsmActionSystemBuffer
\* HsmStateContext::new(service_target, state_machine, state)
HsmStateContext_new(service_target, state_machine, state) ==
    [service_target |-> service_target, state_machine |-> state_machine, state |-> state]

\* the contexts the buffer is driven with: one state machine each, serving itself
HsmStateContext == {HsmStateContext_new(m, m, 0) : m \in 0 .. (NumContexts - 1)}

\* #[derive(Default)] struct HsmActionSystemBuffer
HsmActionSystemBuffer_default ==
    [curr |-> << >>, next |-> << >>, filter |-> {}, interceptor |-> {}]

HsmActionSystemBuffer_get_curr(b) == b.curr

HsmActionSystemBuffer_is_empty(b) == b.curr = << >>

\* update() without the final next.clear()
HsmActionSystemBuffer_update_no_clear(b) ==
    LET swapped == [b EXCEPT !.curr = b.next, !.next = b.curr]
        keep(x) == x \notin swapped.filter
    IN  IF swapped.filter # {}
        THEN [swapped EXCEPT !.curr = SelectSeq(swapped.curr, keep), !.filter = {}]
        ELSE swapped

\* update() without filter.clear()
HsmActionSystemBuffer_update_keeps_filter(b) ==
    LET swapped == [b EXCEPT !.curr = b.next, !.next = b.curr]
        keep(x) == x \notin swapped.filter
        filtered == IF swapped.filter # {}
                    THEN [swapped EXCEPT !.curr = SelectSeq(swapped.curr, keep)]
                    ELSE swapped
    IN  [filtered EXCEPT !.next = << >>]

\* HsmActionSystemBuffer::update: swap, filter curr, clear the filter, clear next
HsmActionSystemBuffer_update(b) ==
    LET swapped == [b EXCEPT !.curr = b.next, !.next = b.curr]
        keep(x) == x \notin swapped.filter
        filtered == IF swapped.filter # {}
                    THEN [swapped EXCEPT !.curr = SelectSeq(swapped.curr, keep),
                                         !.filter = {}]
                    ELSE swapped
    IN  [filtered EXCEPT !.next = << >>]

\* HsmActionSystemBuffer::update_interceptor
HsmActionSystemBuffer_update_interceptor(b) ==
    IF b.curr = b.next THEN b
    ELSE IF b.next = << >>
         THEN [b EXCEPT !.interceptor = b.interceptor \cup Range(b.curr)]
         ELSE [b EXCEPT !.interceptor =
                   b.interceptor \cup {x \in Range(b.next) : ~Contains(b.curr, x)}]

\* add() without the interceptor check
HsmActionSystemBuffer_add_unchecked(b, context) ==
    [b EXCEPT !.next = Append(b.next, context)]

\* HsmActionSystemBuffer::add
HsmActionSystemBuffer_add(b, context) ==
    IF context \in b.interceptor THEN b
    ELSE [b EXCEPT !.next = Append(b.next, context)]

\* HsmActionSystemBuffer::adds
HsmActionSystemBuffer_adds(b, contexts) ==
    LET pass(x) == x \notin b.interceptor
    IN  [b EXCEPT !.next = b.next \o SelectSeq(contexts, pass)]

HsmActionSystemBuffer_add_filter(b, context) ==
    [b EXCEPT !.filter = b.filter \cup {context}]

HsmActionSystemBuffer_add_interceptor(b, context) ==
    [b EXCEPT !.interceptor = b.interceptor \cup {context}]

HsmActionSystemBuffer_remove_interceptor(b, context) ==
    [b EXCEPT !.interceptor = b.interceptor \ {context}]

\* HsmActionSystemBuffer::reflow
HsmActionSystemBuffer_reflow(b) == [b EXCEPT !.next = b.next \o b.curr]

\* handle_on_update_anchor: buffer.reflow() on the buffer of the anchor point
handle_on_update_anchor(b) == HsmActionSystemBuffer_reflow(b)


\* -------------------------------------------------- CombinationCondition
\* characters are one-character strings, a text is a sequence of characters
Alphabetic == {"A", "N", "O", "a", "b", "d", "n", "o", "p", "r", "t"}
Numeric == {"1"}

\* char::is_alphabetic, char::is_alphanumeric, char::is_whitespace
is_alphabetic(ch) == ch \in Alphabetic
is_alphanumeric(ch) == ch \in (Alphabetic \cup Numeric)
is_whitespace(ch) == ch = " "

\* enum CombinationCondition { And(..), Or(..), Not(..), Id(String) }
CombinationCondition_And(conditions) ==
    [kind |-> "And", name |-> << >>, conditions |-> conditions]
CombinationCondition_Or(conditions) ==
    [kind |-> "Or", name |-> << >>, conditions |-> conditions]
CombinationCondition_Not(condition) ==
    [kind |-> "Not", name |-> << >>, conditions |-> << condition >>]
CombinationCondition_Id(name) ==
    [kind |-> "Id", name |-> name, conditions |-> << >>]

\* the value of a Result or Option that holds no condition
NoCondition == [kind |-> "None", name |-> << >>, conditions |-> << >>]

\* impl Default for CombinationCondition
CombinationCondition_default == CombinationCondition_Id(<< >>)

\* CombinationCondition::new
CombinationCondition_new(name) == CombinationCondition_Id(name)

\* CombinationCondition::and; panic is TRUE when the call panics
CombinationCondition_and(conditions) ==
    IF Len(conditions) < 2
    THEN [panic |-> TRUE, cond |-> NoCondition]
    ELSE [panic |-> FALSE, cond |-> CombinationCondition_And(conditions)]

\* CombinationCondition::or
CombinationCondition_or(conditions) ==
    IF Len(conditions) < 2
    THEN [panic |-> TRUE, cond |-> NoCondition]
    ELSE [panic |-> FALSE, cond |-> CombinationCondition_Or(conditions)]

\* CombinationCondition::add_and
add_and(self, condition) ==
    IF self.kind = "And" /\ condition.kind = "And"
    THEN CombinationCondition_And(self.conditions \o condition.conditions)
    ELSE CombinationCondition_And(<< self, condition >>)

\* CombinationCondition::add_or
add_or(self, condition) ==
    IF self.kind = "Or" /\ condition.kind = "Or"
    THEN CombinationCondition_Or(self.conditions \o condition.conditions)
    ELSE CombinationCondition_Or(<< self, condition >>)

\* CombinationCondition::add_not
add_not(self) ==
    IF self.kind = "Not" THEN self.conditions[1] ELSE CombinationCondition_Not(self)

\* CombinationCondition::not
CombinationCondition_not(condition) == add_not(condition)

\* ---- impl Display for CombinationCondition
RECURSIVE fmt(_)
RECURSIVE fmt_conditions(_, _)

\* the loop over the children without the ", " between them
RECURSIVE fmt_conditions_unseparated(_, _)
fmt_conditions_unseparated(conditions, i) ==
    IF i > Len(conditions) THEN << >>
    ELSE fmt(conditions[i]) \o fmt_conditions_unseparated(conditions, i + 1)

\* the loop over the children: ", " before every child but the first
fmt_conditions(conditions, i) ==
    IF i > Len(conditions) THEN << >>
    ELSE (IF i > 1 THEN << ",", " " >> ELSE << >>)
         \o fmt(conditions[i]) \o fmt_conditions(conditions, i + 1)

fmt(c) ==
    CASE c.kind = "And" -> << "A", "n", "d", "(" >> \o fmt_conditions(c.conditions, 1) \o << ")" >>
      [] c.kind = "Or"  -> << "O", "r", "(" >> \o fmt_conditions(c.conditions, 1) \o << ")" >>
      [] c.kind = "Not" -> << "N", "o", "t", "(" >> \o fmt(c.conditions[1]) \o << ")" >>
      [] OTHER          -> c.name

\* ---- struct Lexer: the input and the index of current_char
\* str::trim
RECURSIVE trim_start(_)
trim_start(s) ==
    IF s # << >> /\ is_whitespace(Head(s)) THEN trim_start(Tail(s)) ELSE s

RECURSIVE trim_end(_)
trim_end(s) ==
    IF s # << >> /\ is_whitespace(s[Len(s)]) THEN trim_end(SubSeq(s, 1, Len(s) - 1)) ELSE s

trim(s) == trim_end(trim_start(s))

\* enum Token
Token_Identifier(id) == [type |-> "Identifier", id |-> id]
Token_LeftParen == [type |-> "LeftParen", id |-> << >>]
Token_RightParen == [type |-> "RightParen", id |-> << >>]
Token_Comma == [type |-> "Comma", id |-> << >>]

\* Lexer::peek: current_char
Lexer_peek(input, pos) == IF pos <= Len(input) THEN Some(input[pos]) ELSE None

\* Lexer::skip_whitespace
RECURSIVE Lexer_skip_whitespace(_, _)
Lexer_skip_whitespace(input, pos) ==
    IF pos <= Len(input) /\ is_whitespace(input[pos])
    THEN Lexer_skip_whitespace(input, pos + 1)
    ELSE pos

\* the identifier loop of next_token: the index after the identifier
RECURSIVE Lexer_identifier_end(_, _)
Lexer_identifier_end(input, pos) ==
    IF pos <= Len(input) /\ (is_alphanumeric(input[pos]) \/ input[pos] = "_")
    THEN Lexer_identifier_end(input, pos + 1)
    ELSE pos

\* Lexer::next_token
Lexer_next_token(input, from) ==
    LET pos == Lexer_skip_whitespace(input, from)
    IN  IF pos > Len(input) THEN [token |-> None, pos |-> pos]
        ELSE CASE input[pos] = "(" -> [token |-> Some(Token_LeftParen), pos |-> pos + 1]
               [] input[pos] = ")" -> [token |-> Some(Token_RightParen), pos |-> pos + 1]
               [] input[pos] = "," -> [token |-> Some(Token_Comma), pos |-> pos + 1]
               [] is_alphabetic(input[pos]) ->
                      LET end == Lexer_identifier_end(input, pos)
                      IN  [token |-> Some(Token_Identifier(SubSeq(input, pos, end - 1))),
                           pos |-> end]
               [] OTHER -> [token |-> None, pos |-> pos + 1]

\* ---- struct Parser: [token |-> current_token, pos |-> the lexer's index]
Parser_new(input) == Lexer_next_token(input, 1)

Parser_advance(input, ps) == Lexer_next_token(input, ps.pos)

\* matches!(self.current_token, Some(Token::..))
is_token(ps, type) == ps.token # None /\ ps.token[1].type = type

ParseErr(ps) == [ok |-> FALSE, cond |-> NoCondition, ps |-> ps]
ParseOk(cond, ps) == [ok |-> TRUE, cond |-> cond, ps |-> ps]

\* Parser::expect_identifier
expect_identifier(input, ps) ==
    IF is_token(ps, "Identifier")
    THEN [ok |-> TRUE, id |-> ps.token[1].id, ps |-> Parser_advance(input, ps)]
    ELSE [ok |-> FALSE, id |-> << >>, ps |-> [ps EXCEPT !.token = None]]

RECURSIVE parse_combination_condition(_, _)
RECURSIVE parse_not_condition(_, _)
RECURSIVE parse_and_condition(_, _)
RECURSIVE parse_or_condition(_, _)
RECURSIVE parse_more_conditions(_, _, _)
RECURSIVE parse_conditions(_, _)

\* the while loop of parse_and_condition and parse_or_condition
parse_more_conditions(input, ps, conditions) ==
    IF is_token(ps, "Comma")
    THEN LET r == parse_combination_condition(input, Parser_advance(input, ps))
         IN  IF ~r.ok THEN [ok |-> FALSE, conditions |-> conditions, ps |-> r.ps]
             ELSE parse_more_conditions(input, r.ps, Append(conditions, r.cond))
    ELSE [ok |-> TRUE, conditions |-> conditions, ps |-> ps]

\* parse_and_condition and parse_or_condition up to the closing parenthesis
parse_conditions(input, ps) ==
    LET e == expect_identifier(input, ps)
    IN  IF ~e.ok \/ ~is_token(e.ps, "LeftParen")
        THEN [ok |-> FALSE, conditions |-> << >>, ps |-> e.ps]
        ELSE LET first == parse_combination_condition(input, Parser_advance(input, e.ps))
             IN  IF ~first.ok THEN [ok |-> FALSE, conditions |-> << >>, ps |-> first.ps]
                 ELSE LET rest == parse_more_conditions(input, first.ps, << first.cond >>)
                      IN  IF ~rest.ok \/ ~is_token(rest.ps, "RightParen")
                          THEN [rest EXCEPT !.ok = FALSE]
                          ELSE [rest EXCEPT !.ps = Parser_advance(input, rest.ps)]

\* parse_and_condition without the check of conditions.len()
parse_and_condition_any_len(input, ps) ==
    LET r == parse_conditions(input, ps)
    IN  IF ~r.ok THEN ParseErr(r.ps)
        ELSE ParseOk(CombinationCondition_And(r.conditions), r.ps)

\* Parser::parse_and_condition
parse_and_condition(input, ps) ==
    LET r == parse_conditions(input, ps)
    IN  IF ~r.ok THEN ParseErr(r.ps)
        ELSE IF Len(r.conditions) = 1 THEN ParseErr(r.ps)
        ELSE ParseOk(CombinationCondition_And(r.conditions), r.ps)

\* Parser::parse_or_condition
parse_or_condition(input, ps) ==
    LET r == parse_conditions(input, ps)
    IN  IF ~r.ok THEN ParseErr(r.ps)
        ELSE IF Len(r.conditions) = 1 THEN ParseErr(r.ps)
        ELSE ParseOk(CombinationCondition_Or(r.conditions), r.ps)

\* Parser::parse_not_condition
parse_not_condition(input, ps) ==
    LET e == expect_identifier(input, ps)
    IN  IF ~e.ok \/ ~is_token(e.ps, "LeftParen") THEN ParseErr(e.ps)
        ELSE LET inner == parse_combination_condition(input, Parser_advance(input, e.ps))
             IN  IF ~inner.ok THEN ParseErr(inner.ps)
                 ELSE IF ~is_token(inner.ps, "RightParen") THEN ParseErr(inner.ps)
                 ELSE ParseOk(CombinationCondition_Not(inner.cond),
                              Parser_advance(input, inner.ps))

\* Parser::parse_combination_condition
parse_combination_condition(input, ps) ==
    IF ~is_token(ps, "Identifier") THEN ParseErr(ps)
    ELSE LET id == ps.token[1].id
         IN  CASE id = << "N", "o", "t" >> -> parse_not_condition(input, ps)
               [] id = << "A", "n", "d" >> -> parse_and_condition(input, ps)
               [] id = << "O", "r" >> -> parse_or_condition(input, ps)
               [] OTHER ->
                      IF Lexer_peek(input, ps.pos) = Some("(") THEN ParseErr(ps)
                      ELSE LET e == expect_identifier(input, ps)
                           IN  IF ~e.ok THEN ParseErr(e.ps)
                               ELSE ParseOk(CombinationCondition_Id(e.id), e.ps)

\* CombinationCondition::parse: Ok(cond) or Err
parse(s) ==
    LET input == trim(s)
        r == parse_combination_condition(input, Parser_new(input))
    IN  [ok |-> r.ok, cond |-> r.cond]


\* ---- StateConditions and CombinationConditionId
\* the condition names in use
Names == {<< "a" >>, << "b", "_", "1" >>, << "O", "r" >>}

\* the StateConditionId registered under a name
StateConditionId == [name \in Names |->
                        CASE name = << "a" >> -> 1
                          [] name = << "b", "_", "1" >> -> 2
                          [] OTHER -> 3]

\* a StateConditions resource in which the names of registered are registered
StateConditions_with(registered) == [name \in registered |-> StateConditionId[name]]

\* StateConditions::to_combinator_condition_id; the tree has the shape of the
\* condition, with ids in place of names
RECURSIVE to_combinator_condition_id(_, _)
RECURSIVE to_combinator_condition_ids(_, _, _)

\* the loop over the children: None at the first child that is not registered
to_combinator_condition_ids(self, conditions, i) ==
    IF i > Len(conditions) THEN Some(<< >>)
    ELSE LET id == to_combinator_condition_id(self, conditions[i])
         IN  IF id = None THEN None
             ELSE LET rest == to_combinator_condition_ids(self, conditions, i + 1)
                  IN  IF rest = None THEN None ELSE Some(<< id[1] >> \o rest[1])

to_combinator_condition_id(self, condition) ==
    IF condition.kind = "Id"
    THEN (IF condition.name \in DOMAIN self
          THEN Some([kind |-> "Id", name |-> self[condition.name], conditions |-> << >>])
          ELSE None)
    ELSE LET ids == to_combinator_condition_ids(self, condition.conditions, 1)
         IN  IF ids = None THEN None
             ELSE Some([kind |-> condition.kind, name |-> << >>, conditions |-> ids[1]])

\* what world.run_system_with(system_id, input) returns: Ok(true), Ok(false), Err
Outcome == {"true", "false", "err"}

\* CombinationConditionId::run: [ret, invoked], invoked the systems run, in order
RECURSIVE run(_, _)
RECURSIVE run_and(_, _, _)
RECURSIVE run_and_all(_, _, _)
RECURSIVE run_or(_, _, _)

\* the And loop that goes on after a child returned Ok(false)
run_and_all(ids, i, world) ==
    IF i > Len(ids) THEN [ret |-> "true", invoked |-> << >>]
    ELSE LET r == run(ids[i], world)
         IN  IF r.ret = "err" THEN r
             ELSE LET rest == run_and_all(ids, i + 1, world)
                  IN  [ret |-> IF r.ret = "false" /\ rest.ret # "err" THEN "false" ELSE rest.ret,
                       invoked |-> r.invoked \o rest.invoked]

\* the And loop from child i on
run_and(ids, i, world) ==
    IF i > Len(ids) THEN [ret |-> "true", invoked |-> << >>]
    ELSE LET r == run(ids[i], world)
         IN  IF r.ret = "err" THEN r
             ELSE IF r.ret = "false" THEN r
             ELSE LET rest == run_and(ids, i + 1, world)
                  IN  [ret |-> rest.ret, invoked |-> r.invoked \o rest.invoked]

\* the Or loop from child i on
run_or(ids, i, world) ==
    IF i > Len(ids) THEN [ret |-> "false", invoked |-> << >>]
    ELSE LET r == run(ids[i], world)
         IN  IF r.ret = "err" THEN r
             ELSE IF r.ret = "true" THEN r
             ELSE LET rest == run_or(ids, i + 1, world)
                  IN  [ret |-> rest.ret, invoked |-> r.invoked \o rest.invoked]

run(self, world) ==
    CASE self.kind = "And" -> run_and(self.conditions, 1, world)
      [] self.kind = "Or"  -> run_or(self.conditions, 1, world)
      [] self.kind = "Not" -> run(self.conditions[1], world)
      [] OTHER             -> [ret |-> world[self.name], invoked |-> << self.name >>]

\* the systems a CombinationConditionId names
RECURSIVE SystemIds(_)
SystemIds(self) ==
    IF self.kind = "Id" THEN {self.name}
    ELSE UNION {SystemIds(self.conditions[i]) : i \in 1 .. Len(self.conditions)}

\* ---- the texts handed to parse
\* number of nodes of a condition
RECURSIVE Size(_)
RECURSIVE SizeAll(_, _)
SizeAll(conditions, i) ==
    IF i > Len(conditions) THEN 0 ELSE Size(conditions[i]) + SizeAll(conditions, i + 1)
Size(c) == 1 + SizeAll(c.conditions, 1)

TextKinds == {"format", "one_and", "one_or", "one_nested", "no_and", "no_or",
              "op", "op_nested", "op_gap", "op_gap_nested", "unterminated"}

\* the text of a kind made from the formatted condition t; cut is the length
\* kept of an unterminated text
TextOf(kind, t, cut) ==
    CASE kind = "format" -> t
      [] kind = "one_and" -> << "A", "n", "d", "(" >> \o t \o << ")" >>
      [] kind = "one_or" -> << "O", "r", "(" >> \o t \o << ")" >>
      [] kind = "one_nested" ->
             << "N", "o", "t", "(", "O", "r", "(" >> \o t \o << ")", ")" >>
      [] kind = "no_and" -> << "A", "n", "d", "(", ")" >>
      [] kind = "no_or" -> << "O", "r", "(", ")" >>
      [] kind = "op" -> << "O", "p", "(" >> \o t \o << ",", " " >> \o t \o << ")" >>
      [] kind = "op_nested" ->
             << "A", "n", "d", "(", "O", "p", "(" >> \o t \o << ",", " " >> \o t
                 \o << ")", ",", " " >> \o t \o << ")" >>
      [] kind = "op_gap" -> << "O", "p", " ", "(" >> \o t \o << ",", " " >> \o t \o << ")" >>
      [] kind = "op_gap_nested" ->
             << "A", "n", "d", "(", "O", "p", " ", "(" >> \o t \o << ")", ",", " " >> \o t
                 \o << ")" >>
      [] OTHER -> SubSeq(t, 1, cut)

\* the lengths at which a formatted group is cut inside the group
Cuts(kind, c) ==
    IF kind = "unterminated"
    THEN (IF c.kind = "Id" THEN {}
          ELSE FirstIndex(fmt(c), "(") .. (Len(fmt(c)) - 1))
    ELSE {0}


\* ------------------------------------------------------ transition engine
\* enum StateTransitionStrategy
Nested == "Nested"
Parallel == "Parallel"
StateTransitionStrategy == {Nested, Parallel}

\* enum ExitTransitionBehavior
Rebirth == "Rebirth"
Resurrection == "Resurrection"
Death == "Death"
ExitTransitionBehavior == {Rebirth, Resurrection, Death}

\* impl From<ExitTransitionBehavior> for HsmOnState
HsmOnState_from(behavior) ==
    CASE behavior = Rebirth -> "Enter"
      [] behavior = Resurrection -> "Update"
      [] behavior = Death -> "Exit"

\* HsmState { strategy, behavior }
HsmState_with(strategy, behavior) == [strategy |-> strategy, behavior |-> behavior]

\* enum NextState
NextState_Next(state, on_state) == << state, on_state >>
NextState_None == << >>

\* The states of one machine are the entities 0 .. NumStates - 1. Their
\* components are a record w:
\*   super_state[s]      Option: the SuperState of s
\*   sub_states[s]       the SubStates of s in declared order (<< >>: no component)
\*   hsm_state[s]        Option: the HsmState of s
\*   on_enter_system[s], on_exit_system[s]
\*                       "none": no component, "unregistered": a name that no
\*                       registered callback has, "registered"
\*   on_update_system    the states whose HsmOnUpdateSystem names the action system
\*   on_enter_condition[s], on_exit_condition[s]
\*                       "none": no component, "unresolved": the guard names a
\*                       condition that StateConditions lacks, "resolved"
RECURSIVE get_on_exit_next_states(_, _, _, _)
RECURSIVE nested_death_walk(_, _, _)
RECURSIVE parallel_death_walk(_, _, _)

\* a (Nested, Death) arm that looks no further than the state exited to
nested_death_walk_stops(w, curr, next_states) == next_states

\* a (Nested, Death) arm that gives up at the state without SuperState
root_next_state_none(state, behavior) == NextState_None

\* the entry of a state without SuperState in the (Nested, Death) arm
root_next_state(state, behavior) ==
    IF behavior = Death
    THEN NextState_Next(state, HsmOnState_from(behavior))
    ELSE NextState_None

\* the while loop of the (Nested, Death) arm, standing at curr
nested_death_walk(w, curr, next_states) ==
    IF w.super_state[curr] = None THEN next_states
    ELSE LET state == w.super_state[curr][1]
         IN  IF w.hsm_state[state] = None THEN next_states
             ELSE LET strategy == w.hsm_state[state][1].strategy
                      behavior == w.hsm_state[state][1].behavior
                  IN  IF w.super_state[state] = None
                      THEN Append(next_states, root_next_state(state, behavior))
                      ELSE IF ~(strategy = Nested /\ behavior = Death)
                      THEN next_states
                               \o get_on_exit_next_states(w, state, strategy, behavior)
                      ELSE nested_death_walk(w, state,
                               Append(next_states, NextState_Next(state, "Exit")))

\* a (Parallel, Death) arm that exits every state it walks over
parallel_death_walk_exits(w, state_id, behavior) ==
    nested_death_walk(w, state_id, << NextState_Next(state_id, "Exit") >>)

\* the while loop of the (Parallel, Death) arm and the match that follows it
parallel_death_walk(w, state_id, behavior) ==
    IF w.super_state[state_id] # None /\ w.hsm_state[w.super_state[state_id][1]] # None
    THEN LET state == w.super_state[state_id][1]
             strategy == w.hsm_state[state][1].strategy
             new_behavior == w.hsm_state[state][1].behavior
         IN  IF ~(strategy = Parallel /\ new_behavior = Death)
             THEN get_on_exit_next_states(w, state, strategy, new_behavior)
             ELSE parallel_death_walk(w, state, new_behavior)
    ELSE CASE behavior = Rebirth -> << NextState_Next(state_id, "Enter") >>
           [] behavior = Resurrection -> << NextState_Next(state_id, "Update") >>
           [] behavior = Death -> << NextState_None >>

\* get_on_exit_next_states(world, state_id, strategy, behavior)
get_on_exit_next_states(w, state_id, strategy, behavior) ==
    CASE behavior = Resurrection -> << NextState_Next(state_id, "Update") >>
      [] behavior = Rebirth -> << NextState_Next(state_id, "Enter") >>
      [] behavior = Death /\ strategy = Nested ->
            IF w.super_state[state_id] = None
            THEN << root_next_state(state_id, behavior) >>
            ELSE nested_death_walk(w, state_id, << NextState_Next(state_id, "Exit") >>)
      [] behavior = Death /\ strategy = Parallel ->
            parallel_death_walk(w, state_id, behavior)

\* ---- StateMachine
\* StateMachine::new(history_len, current_state)
StateMachine_new(history_len, current_state) ==
    [history |-> StateHistory_push(StateHistory_new(history_len), current_state),
     next_state |-> << >>,
     initial_state |-> current_state]

\* StateHistory::get_current: the back of the deque
StateHistory_get_current(h) ==
    IF h.history = << >> THEN None ELSE Some(h.history[Len(h.history)])

curr_state_id(sm) == StateHistory_get_current(sm.history)

push_history(sm, state) == [sm EXCEPT !.history = StateHistory_push(sm.history, state)]

\* push_next_state: next_state.push_front
push_next_state(sm, next_state) == [sm EXCEPT !.next_state = << next_state >> \o @]

\* push_next_states: next_state.extend
push_next_states(sm, next_states) == [sm EXCEPT !.next_state = @ \o next_states]

\* pop_next_state: next_state.pop_front(); ret is the Option<NextState>
pop_next_state(sm) ==
    IF sm.next_state = << >>
    THEN [ret |-> None, sm |-> sm]
    ELSE [ret |-> Some(Head(sm.next_state)),
          sm |-> [sm EXCEPT !.next_state = Tail(@)]]

\* StateMachine::update: pop the front; push its state to the history if it
\* is a NextState::Next
StateMachine_update(sm) ==
    LET popped == pop_next_state(sm)
    IN  IF popped.ret # None /\ popped.ret[1] # NextState_None
        THEN push_history(popped.sm, popped.ret[1][1])
        ELSE popped.sm

\* ---- the lifecycle hooks
\* The part of the application the engine works on is a record e:
\*   state_machine[m], on_state[m]   the components of machine m
\*   terminated, stationary          the machines with these markers
\*   check                           CheckOnTransitionStates
\*   log                             the callbacks run so far: << m, state, phase >>
\*   trace                           what happened so far, in order: [m, kind, entry]
\*                                   with kind "insert" (a HsmOnState inserted),
\*                                   "callback", "queue" (an entry pushed on
\*                                   next_state), "pop" and "update" (an entry
\*                                   taken by pop_next_state and by update),
\*                                   "flag" and "unflag" (m put into and taken
\*                                   out of CheckOnTransitionStates)
\*   buffer                          the HsmActionSystemBuffer of the action system
\* ws[m] are the components of the states of machine m.

\* the context of machine m in a state; no ServiceTarget, so m serves itself
context_of(m, state) == HsmStateContext_new(m, m, state)

\* e with one more event of machine m in its trace
traced(e, m, kind, entry) ==
    [e EXCEPT !.trace = Append(@, [m |-> m, kind |-> kind, entry |-> entry])]

\* a callback that the command runs twice
callback_twice(e, m, state, phase) ==
    LET once == traced([e EXCEPT !.log = Append(@, << m, state, phase >>)],
                       m, "callback", << state, phase >>)
    IN  traced([once EXCEPT !.log = Append(@, << m, state, phase >>)],
               m, "callback", << state, phase >>)

\* e with the callback of a state run
callback(e, m, state, phase) ==
    traced([e EXCEPT !.log = Append(@, << m, state, phase >>)],
           m, "callback", << state, phase >>)

RECURSIVE traced_all(_, _, _, _, _)
\* e with one event for each of the entries, from the i-th on
traced_all(e, m, kind, entries, i) ==
    IF i > Len(entries) THEN e
    ELSE traced_all(traced(e, m, kind, entries[i]), m, kind, entries, i + 1)

\* CheckOnTransitionStates.insert(m) and remove(m), with m in state
flag(e, m, state) == traced([e EXCEPT !.check = @ \cup {m}], m, "flag", << state >>)
unflag(e, m, state) == traced([e EXCEPT !.check = @ \ {m}], m, "unflag", << state >>)

RECURSIVE unflag_all(_, _, _)
\* remove(m) for each of the machines, from the i-th on
unflag_all(e, machines, i) ==
    IF i > Len(machines) THEN e
    ELSE unflag_all(unflag(e, machines[i], curr_state_id(e.state_machine[machines[i]])[1]),
                    machines, i + 1)

\* HsmActionSystemBuffer::buffer_scope: nb is the buffer after f
buffer_scope(w, b, state_id, nb) == IF state_id \in w.on_update_system THEN nb ELSE b

\* a Terminated::on_remove that leaves the pending queue as it is
Terminated_on_remove_keeps_queue(sm) ==
    [sm EXCEPT !.history = StateHistory_push(@, sm.initial_state)]

\* Terminated::on_remove, on the StateMachine of the entity
Terminated_on_remove(sm) ==
    [sm EXCEPT !.next_state = << >>,
               !.history = StateHistory_push(@, sm.initial_state)]

\* StationaryStateMachine::on_insert
StationaryStateMachine_on_insert(ws, e, m) ==
    LET curr == curr_state_id(e.state_machine[m])
    IN  IF curr = None THEN e
        ELSE [e EXCEPT !.buffer = buffer_scope(ws[m], @, curr[1],
                  HsmActionSystemBuffer_add(@, context_of(m, curr[1])))]

\* insert(Terminated): the marker requires StationaryStateMachine
insert_Terminated(ws, e, m) ==
    LET marked == [e EXCEPT !.terminated = @ \cup {m}, !.stationary = @ \cup {m}]
    IN  IF m \in e.stationary THEN marked
        ELSE StationaryStateMachine_on_insert(ws, marked, m)

RECURSIVE HsmOnState_on_insert(_, _, _, _)

\* the Enter arm after state_machine.update(): the command that runs the
\* enter system of the current state and inserts Update
on_enter(ws, updated, m) ==
    LET curr == curr_state_id(updated.state_machine[m])
    IN  IF curr = None THEN updated
        ELSE IF ws[m].on_enter_system[curr[1]] # "registered" THEN updated
        ELSE HsmOnState_on_insert(ws, callback(updated, m, curr[1], "Enter"), m, "Update")

\* the command the Exit arm queues, after the exit system ran: popped is what
\* pop_next_state gave
on_exit(ws, called, m, popped) ==
    LET taken == [(IF popped.ret = None THEN called
                   ELSE traced(called, m, "pop", popped.ret[1]))
                  EXCEPT !.state_machine[m] = popped.sm]
    IN  IF popped.ret = None
        THEN HsmOnState_on_insert(ws, taken, m, "Update")
        ELSE IF popped.ret[1] = NextState_None
        THEN insert_Terminated(ws, taken, m)
        ELSE HsmOnState_on_insert(ws,
                 [taken EXCEPT !.state_machine[m] = push_history(@, popped.ret[1][1])],
                 m, popped.ret[1][2])

\* the Exit arm once the buffer of the current state was scoped
on_exit_system(ws, scoped, m, curr_state) ==
    IF ws[m].on_exit_system[curr_state] # "registered" THEN scoped
    ELSE on_exit(ws, callback(scoped, m, curr_state, "Exit"), m,
                 pop_next_state(scoped.state_machine[m]))

\* insert(hsm_state) on machine m: HsmOnState::on_insert and the commands it queues
HsmOnState_on_insert(ws, e, m, hsm_state) ==
    LET w == ws[m]
        at == curr_state_id(e.state_machine[m])
        inserted == traced([e EXCEPT !.on_state[m] = hsm_state], m, "insert",
                           IF at = None THEN << hsm_state >> ELSE << at[1], hsm_state >>)
        head == pop_next_state(e.state_machine[m]).ret
    IN  CASE hsm_state = "Enter" ->
            on_enter(ws,
                     [(IF head = None THEN inserted
                       ELSE traced(inserted, m, "update", head[1]))
                      EXCEPT !.state_machine[m] = StateMachine_update(@)],
                     m)
          [] hsm_state = "Update" ->
            IF at = None THEN inserted
            ELSE [(IF /\ w.on_enter_system[at[1]] # "none"
                      /\ w.on_exit_system[at[1]] # "none"
                   THEN flag(inserted, m, at[1]) ELSE inserted)
                  EXCEPT !.buffer = buffer_scope(w, @, at[1],
                             HsmActionSystemBuffer_add(@, context_of(m, at[1])))]
          [] hsm_state = "Exit" ->
            IF at = None THEN inserted
            ELSE on_exit_system(ws,
                     [inserted EXCEPT !.buffer = buffer_scope(w, @, at[1],
                         HsmActionSystemBuffer_add_filter(
                             HsmActionSystemBuffer_remove_interceptor(@,
                                 context_of(m, at[1])),
                             context_of(m, at[1])))],
                     m, at[1])

\* ---- the transition passes
\* a query without the filter
matches_stationary(e, m) == m \in DOMAIN e.state_machine

\* the machines a pass's query matches: Without<StationaryStateMachine>
matches(e, m) == m \in DOMAIN e.state_machine /\ m \notin e.stationary

\* the sub states of curr with a resolvable enter guard, in declared order
collect(w, curr) ==
    LET candidate(c) == /\ w.on_enter_condition[c] = "resolved"
                        /\ w.hsm_state[c] # None
                        /\ w.super_state[c] # None
    IN  SelectSeq(w.sub_states[curr], candidate)

RECURSIVE enter_scan(_, _, _, _, _)
\* the for loop of handle_on_enter_states over the machines in order, from
\* the i-th on; acc is [queued, condition_with_empty, returned]
enter_scan(ws, e, order, i, acc) ==
    IF i > Len(order) THEN acc
    ELSE
    LET m == order[i]
        curr == curr_state_id(e.state_machine[m])
    IN  IF ~matches(e, m) THEN enter_scan(ws, e, order, i + 1, acc)
        ELSE IF curr = None THEN [acc EXCEPT !.returned = TRUE]
        ELSE IF ws[m].hsm_state[curr[1]] = None \/ ws[m].sub_states[curr[1]] = << >>
        THEN enter_scan(ws, e, order, i + 1, acc)
        ELSE IF collect(ws[m], curr[1]) = << >>
        THEN enter_scan(ws, e, order, i + 1,
                 [acc EXCEPT !.condition_with_empty = Append(@, m)])
        ELSE enter_scan(ws, e, order, i + 1,
                 [acc EXCEPT !.queued = Append(@,
                     [state_machine_id |-> m, curr_state_id |-> curr[1],
                      collected |-> collect(ws[m], curr[1]),
                      strategy |-> ws[m].hsm_state[curr[1]][1].strategy])])

\* enter_command that runs every guard and lets the last true one win
enter_command_last_wins(ws, e, c, guards) ==
    LET m == c.state_machine_id
        wins == {i \in 1 .. Len(c.collected) : guards[<< m, c.collected[i] >>] = "true"}
        final == CHOOSE i \in wins : \A j \in wins : i >= j
        all == [i \in 1 .. Len(c.collected) |-> << m, c.collected[i] >>]
    IN  IF wins = {} THEN [e |-> e, evaluated |-> all]
        ELSE
        LET sub_state_id == c.collected[final]
            unflagged == unflag(e, m, c.curr_state_id)
            moved == IF c.strategy = Nested
                     THEN [unflagged EXCEPT !.state_machine[m] =
                              push_history(@, sub_state_id)]
                     ELSE traced([unflagged EXCEPT !.state_machine[m] =
                                     push_next_state(push_history(@, c.curr_state_id),
                                         NextState_Next(sub_state_id, "Enter"))],
                                 m, "queue", NextState_Next(sub_state_id, "Enter"))
            next_on_state == IF c.strategy = Nested THEN "Enter" ELSE "Exit"
        IN  [e |-> HsmOnState_on_insert(ws, moved, m, next_on_state),
             evaluated |-> all]

\* enter_command that treats every strategy as Nested
enter_command_always_nested(ws, e, c, guards) ==
    LET m == c.state_machine_id
        wins == {i \in 1 .. Len(c.collected) : guards[<< m, c.collected[i] >>] = "true"}
        first == CHOOSE i \in wins : \A j \in wins : i <= j
        upto(n) == [i \in 1 .. n |-> << m, c.collected[i] >>]
    IN  IF wins = {} THEN [e |-> e, evaluated |-> upto(Len(c.collected))]
        ELSE
        LET sub_state_id == c.collected[first]
            unflagged == unflag(e, m, c.curr_state_id)
            moved == [unflagged EXCEPT !.state_machine[m] = push_history(@, sub_state_id)]
        IN  [e |-> HsmOnState_on_insert(ws, moved, m, "Enter"),
             evaluated |-> upto(first)]

\* the command handle_on_enter_states queues for one machine; guards[<< m, s >>]
\* is what running the enter guard of s gives. Returns [e, evaluated].
enter_command(ws, e, c, guards) ==
    LET m == c.state_machine_id
        wins == {i \in 1 .. Len(c.collected) : guards[<< m, c.collected[i] >>] = "true"}
        first == CHOOSE i \in wins : \A j \in wins : i <= j
        upto(n) == [i \in 1 .. n |-> << m, c.collected[i] >>]
    IN  IF wins = {} THEN [e |-> e, evaluated |-> upto(Len(c.collected))]
        ELSE
        LET sub_state_id == c.collected[first]
            unflagged == unflag(e, m, c.curr_state_id)
            moved == IF c.strategy = Nested
                     THEN [unflagged EXCEPT !.state_machine[m] =
                              push_history(@, sub_state_id)]
                     ELSE traced([unflagged EXCEPT !.state_machine[m] =
                                     push_next_state(push_history(@, c.curr_state_id),
                                         NextState_Next(sub_state_id, "Enter"))],
                                 m, "queue", NextState_Next(sub_state_id, "Enter"))
            next_on_state == IF c.strategy = Nested THEN "Enter" ELSE "Exit"
        IN  [e |-> HsmOnState_on_insert(ws, moved, m, next_on_state),
             evaluated |-> upto(first)]

RECURSIVE exit_scan(_, _, _, _, _)
\* the for loop of handle_on_exit_states
exit_scan(ws, e, order, i, acc) ==
    IF i > Len(order) THEN acc
    ELSE
    LET m == order[i]
        curr == curr_state_id(e.state_machine[m])
    IN  IF ~matches(e, m) THEN exit_scan(ws, e, order, i + 1, acc)
        ELSE IF curr = None THEN [acc EXCEPT !.returned = TRUE]
        ELSE IF ws[m].hsm_state[curr[1]] = None \/ ws[m].super_state[curr[1]] = None
        THEN exit_scan(ws, e, order, i + 1, acc)
        ELSE IF ws[m].on_exit_condition[curr[1]] = "none"
        THEN exit_scan(ws, e, order, i + 1,
                 [acc EXCEPT !.condition_with_empty = Append(@, m)])
        ELSE IF ws[m].on_exit_condition[curr[1]] = "unresolved"
        THEN exit_scan(ws, e, order, i + 1, acc)
        ELSE exit_scan(ws, e, order, i + 1,
                 [acc EXCEPT !.queued = Append(@,
                     [state_machine_id |-> m, curr_state_id |-> curr[1],
                      super_state_id |-> ws[m].super_state[curr[1]][1]])])

\* the command handle_on_exit_states queues for one machine; guards[<< m, s >>]
\* is what running the exit guard of s gives. Returns [e, evaluated].
exit_command(ws, e, c, guards) ==
    LET m == c.state_machine_id
        evaluated == << << m, c.curr_state_id >> >>
        unflagged == unflag(e, m, c.curr_state_id)
        super == ws[m].hsm_state[c.super_state_id]
    IN  IF guards[<< m, c.curr_state_id >>] # "true" THEN [e |-> e, evaluated |-> evaluated]
        ELSE IF super = None THEN [e |-> unflagged, evaluated |-> evaluated]
        ELSE
        LET next_states == get_on_exit_next_states(ws[m], c.super_state_id,
                               super[1].strategy, super[1].behavior)
            moved == traced_all([unflagged EXCEPT !.state_machine[m] =
                                    push_history(push_next_states(@, next_states),
                                                 c.curr_state_id)],
                                m, "queue", next_states, 1)
        IN  [e |-> HsmOnState_on_insert(ws, moved, m, "Exit"), evaluated |-> evaluated]

\* the pass's result so far, with what one more command did
applied(acc, r) == [e |-> r.e, evaluated |-> acc.evaluated \o r.evaluated]

RECURSIVE apply_commands(_, _, _, _, _, _)
\* the queued commands of a pass, applied in the order they were queued; kind
\* tells the commands of handle_on_enter_states from those of
\* handle_on_exit_states
apply_commands(kind, ws, acc, queued, i, guards) ==
    IF i > Len(queued) THEN acc
    ELSE apply_commands(kind, ws,
             applied(acc, IF kind = "enter"
                          THEN enter_command(ws, acc.e, queued[i], guards)
                          ELSE exit_command(ws, acc.e, queued[i], guards)),
             queued, i + 1, guards)

NoScan == [queued |-> << >>, condition_with_empty |-> << >>, returned |-> FALSE]

\* what follows the loop of a pass that left the scan s: the removal of
\* condition_with_empty unless the loop returned, then the queued commands
after_scan(kind, ws, e, s, guards) ==
    apply_commands(kind, ws,
        [e |-> IF s.returned THEN e ELSE unflag_all(e, s.condition_with_empty, 1),
         evaluated |-> << >>],
        s.queued, 1, guards) @@ [scan |-> s]

\* a whole pass. Returns [e, evaluated, scan].
run_pass(kind, ws, e, order, guards) ==
    after_scan(kind, ws, e,
               IF kind = "enter"
               THEN enter_scan(ws, e, order, 1, NoScan)
               ELSE exit_scan(ws, e, order, 1, NoScan),
               guards)

handle_on_enter_states(ws, e, order, guards) == run_pass("enter", ws, e, order, guards)

handle_on_exit_states(ws, e, order, guards) == run_pass("exit", ws, e, order, guards)


\* ------------------------------------------------------------------ state
VARIABLES
    root,       \* StateTree.root
    tree,       \* StateTree.tree
    before,     \* StateTree.tree as it was when the last call started
    last,       \* the last StateTree call: [op, from, to, ret]
    removed,    \* the tree returned by the last remove (NoTree otherwise)
    calls,      \* number of add/remove calls made
    iter,       \* a TraversalIter
    iterSrc,    \* the node the iterator was made from: [state, traversal, sub_states]
    front,      \* what next() has yielded, in order
    back,       \* what next_back() has yielded, in order
    iterLast,   \* the last iterator call: [op, ret]
    state_history,  \* a StateHistory: [history, max_size]
    pushed,     \* every node pushed since the history was made or cleared
    buffer,     \* an HsmActionSystemBuffer: [curr, next, filter, interceptor]
    bufBefore,  \* the buffer as it was when the last buffer call started
    bufLast,    \* the last buffer call: [op, contexts]
    bufPrev,    \* the op of the buffer call before the last one
    bufCalls,   \* number of buffer calls made
    cond,       \* a CombinationCondition
    condLast,   \* the last call that built a condition: [op, args, ret]
    parsed,     \* the last parse call: [kind, src, text, ok, cond]
    ran,        \* the last run: [resolved, self, world, ret, invoked]
    worlds,     \* worlds[m]: the components of the states of machine m
    state_machines,  \* state_machines[m]: the StateMachine of machine m
    on_states,  \* on_states[m]: the HsmOnState of machine m
    terminated, \* the machines with the Terminated marker
    stationary, \* the machines with the StationaryStateMachine marker
    check_on_transition_states,  \* CheckOnTransitionStates
    log,        \* the enter and exit callbacks run so far: << m, state, phase >>
    trace,      \* what the engine did so far, in order: [m, kind, entry]
    action_buffer,  \* the HsmActionSystemBuffer of the action system
    schedule,   \* the transition system that runs next: "enter" or "exit"
    lastPass,   \* the last system run: [kind, before, order, guards, evaluated, scan]
    lastEnter,  \* the last enter pass, kept while the exit pass of its tick runs
    steps,      \* number of systems run
    ticks       \* number of runs of the action system

treeVars == << root, tree, before, last, removed, calls >>
iterVars == << iter, iterSrc, front, back, iterLast >>
historyVars == << state_history, pushed >>
bufferVars == << buffer, bufBefore, bufLast, bufPrev, bufCalls >>
conditionVars == << cond, condLast, parsed, ran >>
engineVars == << worlds, state_machines, on_states, terminated, stationary,
                check_on_transition_states, log, trace, action_buffer, schedule,
                lastPass,
                lastEnter, steps, ticks >>

vars == << treeVars, iterVars, historyVars, bufferVars, conditionVars, engineVars >>

panicked == last.ret = "panic"

\* StateTree::new(0, traversal)
TreeInit(Traversals) ==
    /\ \E traversal \in Traversals :
           /\ root = StateTree_new(0, traversal).root
           /\ tree = StateTree_new(0, traversal).tree
           /\ before = StateTree_new(0, traversal).tree
    /\ last = [op |-> "new", from |-> 0, to |-> 0, ret |-> "new"]
    /\ removed = NoTree
    /\ calls = 0

\* no iterator made yet
IterInit ==
    /\ iter = TraversalIter_default
    /\ iterSrc = [state |-> None, traversal |-> TraversalStrategy_default, sub_states |-> << >>]
    /\ front = << >>
    /\ back = << >>
    /\ iterLast = [op |-> "none", ret |-> None]

\* StateHistory::new(max_size)
HistoryInit(Sizes) ==
    /\ \E size \in Sizes : state_history = StateHistory_new(size)
    /\ pushed = << >>

\* tree.add(from, to, traversal)
AddCallOn(Froms, Traversals) ==
    /\ ~panicked
    /\ calls < MaxCalls
    /\ \E from \in Froms, to \in Entity, traversal \in Traversals :
           LET r == add(tree, from, to, traversal)
           IN  /\ tree' = r.tree
               /\ last' = [op |-> "add", from |-> from, to |-> to,
                           ret |-> IF r.ret THEN "true" ELSE "false"]
    /\ before' = tree
    /\ removed' = NoTree
    /\ calls' = calls + 1
    /\ UNCHANGED << root, iterVars, historyVars, bufferVars, conditionVars, engineVars >>

AddCall == AddCallOn(Entity, {TraversalStrategy_default})

\* tree.remove(from, to)
RemoveCall ==
    /\ ~panicked
    /\ calls < MaxCalls
    /\ \E from \in Entity, to \in Entity :
           LET r == remove(tree, from, to)
           IN  /\ tree' = r.tree
               /\ removed' = r.removed
               /\ last' = [op |-> "remove", from |-> from, to |-> to, ret |-> r.ret]
    /\ before' = tree
    /\ calls' = calls + 1
    /\ UNCHANGED << root, iterVars, historyVars, bufferVars, conditionVars, engineVars >>

\* ---- the iterator of the children of the root
IterAddCall == AddCallOn({0}, {TraversalStrategy_default})

\* let mut iter = tree.traversal_iter(&world, state)
TraversalIterCall ==
    /\ \E state \in Entity :
           /\ iter' = traversal_iter(tree, state)
           /\ iterSrc' = IF state \in DOMAIN tree
                         THEN [state |-> Some(state),
                               traversal |-> tree[state].traversal,
                               sub_states |-> tree[state].sub_states]
                         ELSE [state |-> Some(state),
                               traversal |-> TraversalStrategy_default,
                               sub_states |-> << >>]
    /\ front' = << >>
    /\ back' = << >>
    /\ iterLast' = [op |-> "traversal_iter", ret |-> None]
    /\ UNCHANGED << treeVars, historyVars, bufferVars, conditionVars, engineVars >>

\* iter.next()
NextCall ==
    /\ iterSrc.state # None
    /\ LET r == TraversalIter_next(iter)
       IN  /\ iter' = r.iter
           /\ front' = front \o r.ret
           /\ iterLast' = [op |-> "next", ret |-> r.ret]
    /\ UNCHANGED << iterSrc, back, treeVars, historyVars, bufferVars, conditionVars, engineVars >>

\* iter.next_back()
NextBackCall ==
    /\ iterSrc.state # None
    /\ LET r == TraversalIter_next_back(iter)
       IN  /\ iter' = r.iter
           /\ back' = back \o r.ret
           /\ iterLast' = [op |-> "next_back", ret |-> r.ret]
    /\ UNCHANGED << iterSrc, front, treeVars, historyVars, bufferVars, conditionVars, engineVars >>

\* ---- the history
\* history.push(node)
PushCall ==
    /\ Len(pushed) < MaxPushes
    /\ \E node \in HistoricalNode :
           /\ state_history' = StateHistory_push(state_history, node)
           /\ pushed' = Append(pushed, node)
    /\ UNCHANGED << treeVars, iterVars, bufferVars, conditionVars, engineVars >>

\* history.clear()
ClearCall ==
    /\ state_history' = StateHistory_clear(state_history)
    /\ pushed' = << >>
    /\ UNCHANGED << treeVars, iterVars, bufferVars, conditionVars, engineVars >>

\* ---- the action buffer
\* HsmActionSystemBuffer::default()
BufferInit ==
    /\ buffer = HsmActionSystemBuffer_default
    /\ bufBefore = HsmActionSystemBuffer_default
    /\ bufLast = [op |-> "default", contexts |-> << >>]
    /\ bufPrev = "none"
    /\ bufCalls = 0

\* one call on the buffer: op(contexts) takes it to b
BufferCall(op, contexts, b) ==
    /\ bufCalls < MaxBufferCalls
    /\ buffer' = b
    /\ bufBefore' = buffer
    /\ bufLast' = [op |-> op, contexts |-> contexts]
    /\ bufPrev' = bufLast.op
    /\ bufCalls' = bufCalls + 1
    /\ UNCHANGED << treeVars, iterVars, historyVars, conditionVars, engineVars >>

\* buffer.add(context)
BufferAddCall ==
    \E context \in HsmStateContext :
        BufferCall("add", << context >>, HsmActionSystemBuffer_add(buffer, context))

\* buffer.adds([c1, c2])
BufferAddsCall ==
    \E c1 \in HsmStateContext, c2 \in HsmStateContext :
        BufferCall("adds", << c1, c2 >>, HsmActionSystemBuffer_adds(buffer, << c1, c2 >>))

\* buffer.add_filter(context)
BufferAddFilterCall ==
    \E context \in HsmStateContext :
        BufferCall("add_filter", << context >>,
                   HsmActionSystemBuffer_add_filter(buffer, context))

\* buffer.add_interceptor(context)
BufferAddInterceptorCall ==
    \E context \in HsmStateContext :
        BufferCall("add_interceptor", << context >>,
                   HsmActionSystemBuffer_add_interceptor(buffer, context))

\* buffer.remove_interceptor(context)
BufferRemoveInterceptorCall ==
    \E context \in HsmStateContext :
        BufferCall("remove_interceptor", << context >>,
                   HsmActionSystemBuffer_remove_interceptor(buffer, context))

\* the anchor system: buffer.reflow()
BufferReflowCall == BufferCall("reflow", << >>, handle_on_update_anchor(buffer))

\* buffer.update()
BufferUpdateCall == BufferCall("update", << >>, HsmActionSystemBuffer_update(buffer))

\* buffer.update_interceptor()
BufferUpdateInterceptorCall ==
    BufferCall("update_interceptor", << >>, HsmActionSystemBuffer_update_interceptor(buffer))

\* action_system_run_mode: what the action callback returned goes back into next
action_system_run_mode(b, contexts) ==
    HsmActionSystemBuffer_update_interceptor(
        IF contexts # << >> THEN HsmActionSystemBuffer_adds(b, contexts) ELSE b)

\* update_buffer: buffer.update()
update_buffer(b) == HsmActionSystemBuffer_update(b)

\* the systems add_system registers, run once: the pipeline
\* buffer_input | callback | action_system_run_mode if curr is not empty,
\* then update_buffer
add_system(b, returned) ==
    update_buffer(IF ~HsmActionSystemBuffer_is_empty(b)
                  THEN action_system_run_mode(b, returned)
                  ELSE b)

\* what an action callback can return for the contexts it received: the ones
\* it keeps, in order (None and an empty list are both << >>)
Returns(received) ==
    {SelectSeq(received, LAMBDA x : x \in keep) : keep \in SUBSET Range(received)}

\* one step of the buffer in a running application
ActionCall(op, contexts, b) ==
    /\ bufCalls < MaxActionCalls
    /\ buffer' = b
    /\ bufBefore' = buffer
    /\ bufLast' = [op |-> op, contexts |-> contexts]
    /\ bufPrev' = bufLast.op
    /\ bufCalls' = bufCalls + 1
    /\ UNCHANGED << treeVars, iterVars, historyVars, conditionVars, engineVars >>

\* one tick of the action system
ActionSystemCall ==
    \E returned \in Returns(HsmActionSystemBuffer_get_curr(buffer)) :
        ActionCall("action_system", returned, add_system(buffer, returned))

\* the Update hook of a state with an action: buff.add(context)
ActionUpdateHookCall ==
    \E context \in HsmStateContext :
        ActionCall("add", << context >>, HsmActionSystemBuffer_add(buffer, context))

\* the Exit hook of a state with an action: remove_interceptor, add_filter
ActionExitHookCall ==
    \E context \in HsmStateContext :
        ActionCall("exit", << context >>,
                   HsmActionSystemBuffer_add_filter(
                       HsmActionSystemBuffer_remove_interceptor(buffer, context), context))


\* ---- conditions
NotParsed == [kind |-> "none", src |-> NoCondition, text |-> << >>,
              ok |-> FALSE, cond |-> NoCondition]

NotRun == [resolved |-> FALSE, self |-> NoCondition, world |-> << >>,
           ret |-> "none", invoked |-> << >>]

\* CombinationCondition::default()
ConditionInit ==
    /\ cond = CombinationCondition_default
    /\ condLast = [op |-> "default", args |-> << >>, ret |-> "ok"]
    /\ parsed = NotParsed
    /\ ran = NotRun

conditionPanicked == condLast.ret = "panic"

\* the operands of the builders: a name, or two names joined by and / or
Operands ==
    {CombinationCondition_new(n) : n \in Names}
        \cup {add_and(CombinationCondition_new(<< "b", "_", "1" >>), CombinationCondition_new(<< "a" >>)),
              add_or(CombinationCondition_new(<< "b", "_", "1" >>), CombinationCondition_new(<< "a" >>))}

\* a call that builds the condition c from args
ConditionCall(op, args, c) ==
    /\ ~conditionPanicked
    /\ Size(c) <= MaxConditionSize
    /\ cond' = c
    /\ condLast' = [op |-> op, args |-> args, ret |-> "ok"]
    /\ parsed' = NotParsed
    /\ ran' = NotRun
    /\ UNCHANGED << treeVars, iterVars, historyVars, bufferVars, engineVars >>

\* CombinationCondition::new(name)
ConditionNewCall ==
    \E name \in Names : ConditionCall("new", << >>, CombinationCondition_new(name))

\* cond.add_and(operand) or operand.add_and(cond)
ConditionAddAndCall ==
    \E operand \in Operands : \E args \in {<< cond, operand >>, << operand, cond >>} :
        ConditionCall("add_and", args, add_and(args[1], args[2]))

\* cond.add_or(operand) or operand.add_or(cond)
ConditionAddOrCall ==
    \E operand \in Operands : \E args \in {<< cond, operand >>, << operand, cond >>} :
        ConditionCall("add_or", args, add_or(args[1], args[2]))

\* CombinationCondition::not(cond)
ConditionNotCall == ConditionCall("add_not", << cond >>, CombinationCondition_not(cond))

\* the argument lists of and / or: the first n of cond, operand, cond
ConstructorArgs == {SubSeq(<< cond, operand, cond >>, 1, n) : operand \in Operands, n \in 0 .. 3}

\* a call of a constructor that panics on fewer than two conditions
ConstructorCall(op, args, r) ==
    IF r.panic
    THEN /\ ~conditionPanicked
         /\ condLast' = [op |-> op, args |-> args, ret |-> "panic"]
         /\ parsed' = NotParsed
         /\ ran' = NotRun
         /\ UNCHANGED << cond, treeVars, iterVars, historyVars, bufferVars, engineVars >>
    ELSE ConditionCall(op, args, r.cond)

\* CombinationCondition::and(args)
ConditionAndCall ==
    \E args \in ConstructorArgs : ConstructorCall("and", args, CombinationCondition_and(args))

\* CombinationCondition::or(args)
ConditionOrCall ==
    \E args \in ConstructorArgs : ConstructorCall("or", args, CombinationCondition_or(args))

\* CombinationCondition::parse(text), text made from the formatted cond; parse
\* and run leave cond as it is, so each built condition is parsed or run once
ConditionParseCall ==
    /\ ~conditionPanicked
    /\ parsed = NotParsed /\ ran = NotRun
    /\ \E kind \in TextKinds : \E cut \in Cuts(kind, cond) :
           LET text == TextOf(kind, fmt(cond), cut)
               r == parse(text)
           IN  parsed' = [kind |-> kind, src |-> cond, text |-> text,
                          ok |-> r.ok, cond |-> r.cond]
    /\ condLast' = [op |-> "parse", args |-> << >>, ret |-> "ok"]
    /\ ran' = NotRun
    /\ UNCHANGED << cond, treeVars, iterVars, historyVars, bufferVars, engineVars >>

\* state_conditions.to_combinator_condition_id(&cond), then id.run(world, input);
\* world gives the outcome of each system the condition names
ConditionRunCall ==
    /\ ~conditionPanicked
    /\ parsed = NotParsed /\ ran = NotRun
    /\ \E missing \in {{}, {<< "O", "r" >>}} :
           LET self == StateConditions_with(Names \ missing)
               id == to_combinator_condition_id(self, cond)
           IN  IF id = None THEN ran' = [NotRun EXCEPT !.ret = "unresolved"]
               ELSE \E world \in [SystemIds(id[1]) -> Outcome] :
                        ran' = [resolved |-> TRUE, self |-> id[1], world |-> world,
                                ret |-> run(id[1], world).ret,
                                invoked |-> run(id[1], world).invoked]
    /\ condLast' = [op |-> "run", args |-> << >>, ret |-> "ok"]
    /\ parsed' = NotParsed
    /\ UNCHANGED << cond, treeVars, iterVars, historyVars, bufferVars, engineVars >>


\* ---- the transition engine
Machines == 0 .. (NumMachines - 1)
States == 0 .. (NumStates - 1)

\* the engine's part of the application, as one record
Engine ==
    [state_machine |-> state_machines, on_state |-> on_states,
     terminated |-> terminated, stationary |-> stationary,
     check |-> check_on_transition_states, log |-> log, trace |-> trace,
     buffer |-> action_buffer]

\* no machine spawned
NoWorlds == [m \in {} |-> 0]

\* OFF <- ON0 <- ON1 ...: every state but the last has one sub state
Chain ==
    [super_state |-> [s \in States |-> IF s = 0 THEN None ELSE Some(s - 1)],
     sub_states |-> [s \in States |-> IF s = NumStates - 1 THEN << >> ELSE << s + 1 >>]]

\* every other state is a sub state of state 0, declared in increasing order
Fan ==
    [super_state |-> [s \in States |-> IF s = 0 THEN None ELSE Some(0)],
     sub_states |-> [s \in States |->
                        IF s = 0 THEN [i \in 1 .. (NumStates - 1) |-> i] ELSE << >>]]

\* HsmState::with_id: the default strategy and behavior, Parallel and Death
HsmState_with_id == HsmState_with(Parallel, Death)

\* the states as create_state_machine spawns them: every state with enter and
\* exit callbacks, every sub state with the action system and both guards.
\* hsm gives the HsmState of the states that have sub states; the states in
\* unguarded have no enter guard.
World(topology, hsm, unguarded) ==
    [super_state |-> topology.super_state,
     sub_states |-> topology.sub_states,
     hsm_state |-> [s \in States |->
                       Some(IF s \in DOMAIN hsm THEN hsm[s] ELSE HsmState_with_id)],
     on_enter_system |-> [s \in States |-> "registered"],
     on_exit_system |-> [s \in States |-> "registered"],
     on_update_system |-> States \ {0},
     on_enter_condition |-> [s \in States |->
                                IF s = 0 \/ s \in unguarded THEN "none" ELSE "resolved"],
     on_exit_condition |-> [s \in States |-> IF s = 0 THEN "none" ELSE "resolved"]]

\* the states that have sub states
Parents(topology) == {s \in States : topology.sub_states[s] # << >>}

\* the behaviors of the states of a topology: any behavior on each state that
\* has sub states, Death on the others (no code reads the behavior of a
\* state without sub states)
Behaviors(topology) ==
    {behavior \in [States -> ExitTransitionBehavior] :
        \A s \in States \ Parents(topology) : behavior[s] = Death}

\* the worlds of one machine, as test_transition_strategies builds them: one
\* strategy for all states and the behaviors above; in both shapes, the last
\* state with or without an enter guard
Worlds ==
    UNION {{World(topology, [s \in States |-> HsmState_with(strategy, behavior[s])],
                  unguarded) :
               strategy \in StateTransitionStrategy,
               behavior \in Behaviors(topology),
               unguarded \in {{}, {NumStates - 1}}} :
           topology \in {Chain, Fan}}

\* a chain whose states all lack the HsmState component
WithoutHsmState(w) == [w EXCEPT !.hsm_state = [s \in States |-> None]]

\* a chain whose guards name conditions that StateConditions lacks
WithUnresolvedGuards(w) ==
    [w EXCEPT !.on_enter_condition = [s \in States |-> IF s = 0 THEN "none" ELSE "unresolved"],
              !.on_exit_condition = [s \in States |-> IF s = 0 THEN "none" ELSE "unresolved"]]

\* the worlds of a machine that shares the application with others: a chain
\* of (Nested, Death) states, whole or with one of the defects
BatchWorlds ==
    LET whole == World(Chain, [s \in Parents(Chain) |-> HsmState_with(Nested, Death)], {})
    IN  {whole, WithoutHsmState(whole), WithUnresolvedGuards(whole)}

\* w with the enter or the exit callback of one state missing ("none": the
\* state has no HsmOnEnterSystem / HsmOnExitSystem) or naming a system that
\* the disposable systems do not hold ("unregistered")
WithSystem(w, phase, s, system) ==
    IF phase = "Enter"
    THEN [w EXCEPT !.on_enter_system[s] = system]
    ELSE [w EXCEPT !.on_exit_system[s] = system]

\* a chain of states of one strategy whose states with sub states come back
\* to life when a sub state exits
TickWorlds ==
    {World(Chain,
           [s \in States |-> HsmState_with(strategy,
                                 IF s \in Parents(Chain) THEN behavior ELSE Death)],
           {}) :
        strategy \in StateTransitionStrategy, behavior \in {Rebirth, Resurrection}}

\* a chain of states of one strategy, whole or with one callback missing
LifecycleWorlds ==
    LET whole(strategy) ==
            World(Chain, [s \in States |-> HsmState_with(strategy, Death)], {})
    IN  {whole(strategy) : strategy \in StateTransitionStrategy}
            \cup {WithSystem(whole(strategy), phase, s, system) :
                      strategy \in StateTransitionStrategy, phase \in {"Enter", "Exit"},
                      s \in States, system \in {"none", "unregistered"}}

RECURSIVE spawn(_, _, _)
\* the machines of ws spawned in order, each in state 0 with
\* HsmOnState::default() = Enter
spawn(ws, e, m) ==
    IF m \notin DOMAIN ws THEN e
    ELSE spawn(ws,
               HsmOnState_on_insert(ws,
                   [e EXCEPT !.state_machine =
                       Insert(@, m, StateMachine_new(HistoryLen, 0)),
                             !.on_state = Insert(@, m, "Enter")],
                   m, "Enter"),
               m + 1)

NoEngine ==
    [state_machine |-> EmptyMap, on_state |-> EmptyMap, terminated |-> {},
     stationary |-> {}, check |-> {}, log |-> << >>, trace |-> << >>,
     buffer |-> HsmActionSystemBuffer_default]

NoPass ==
    [kind |-> "none", before |-> NoEngine, order |-> << >>, guards |-> << >>,
     evaluated |-> << >>, scan |-> NoScan]

\* the application after the machines of one of the given worlds were spawned
EngineInit(WorldSets) ==
    /\ worlds \in WorldSets
    /\ \E e \in {spawn(worlds, NoEngine, 0)} :
           /\ state_machines = e.state_machine
           /\ on_states = e.on_state
           /\ terminated = e.terminated
           /\ stationary = e.stationary
           /\ check_on_transition_states = e.check
           /\ log = e.log
           /\ trace = e.trace
           /\ action_buffer = e.buffer
    /\ schedule = "enter"
    /\ lastPass = NoPass
    /\ lastEnter = NoPass
    /\ steps = 0
    /\ ticks = 0

\* one system of the application ran and left the engine's part as e
EngineStep(e, p) ==
    /\ steps < MaxSteps
    /\ steps' = steps + 1
    /\ state_machines' = e.state_machine
    /\ on_states' = e.on_state
    /\ terminated' = e.terminated
    /\ stationary' = e.stationary
    /\ check_on_transition_states' = e.check
    /\ log' = e.log
    /\ trace' = e.trace
    /\ action_buffer' = e.buffer
    /\ lastPass' = p
    /\ UNCHANGED << ticks, worlds, treeVars, iterVars, historyVars, bufferVars, conditionVars >>

\* user code clears the history of a machine between two ticks:
\* state_machine.history.clear()
HistoryClearCall ==
    /\ schedule = "enter"
    /\ \E m \in DOMAIN state_machines :
           /\ curr_state_id(state_machines[m]) # None
           /\ EngineStep([Engine EXCEPT !.state_machine[m].history = StateHistory_clear(@)],
                         [NoPass EXCEPT !.kind = "clear", !.before = Engine,
                                        !.order = << m >>])
    /\ UNCHANGED << schedule, lastEnter >>

\* ---- user code working on the pending queue of machine 0 between two ticks
\* the entries user code queues
QueueEntries ==
    {NextState_Next(s, "Exit") : s \in {0, 1}}
        \cup {NextState_Next(1, "Enter"), NextState_None}

\* the batches user code queues at once
QueueBatches ==
    {<< a, b >> : a, b \in {NextState_Next(s, "Exit") : s \in {0, 1}}}
        \cup {<< NextState_None, NextState_Next(0, "Exit") >>}

\* what a call of user code on machine 0 leaves in lastPass
QueueCall(kind) == [NoPass EXCEPT !.kind = kind, !.before = Engine, !.order = << 0 >>]

\* state_machine.push_next_state(next_state)
PushNextStateCall ==
    /\ steps < MaxQueueCalls
    /\ \E next_state \in QueueEntries :
           EngineStep(traced([Engine EXCEPT !.state_machine[0] =
                                 push_next_state(@, next_state)],
                             0, "queue", next_state),
                      QueueCall("push_next_state"))
    /\ UNCHANGED << schedule, lastEnter >>

\* state_machine.push_next_states(next_states)
PushNextStatesCall ==
    /\ steps < MaxQueueCalls
    /\ \E next_states \in QueueBatches :
           EngineStep(traced_all([Engine EXCEPT !.state_machine[0] =
                                     push_next_states(@, next_states)],
                                 0, "queue", next_states, 1),
                      QueueCall("push_next_states"))
    /\ UNCHANGED << schedule, lastEnter >>

\* commands.entity(machine).insert(on_state): the phase change user code asks for
InsertOnStateCall ==
    /\ steps < MaxQueueCalls
    /\ \E on_state \in {"Enter", "Exit"} :
           EngineStep(HsmOnState_on_insert(worlds, Engine, 0, on_state),
                      QueueCall("insert"))
    /\ UNCHANGED << schedule, lastEnter >>

\* commands.entity(machine).remove::<Terminated>(): user code clears the marker
\* (StationaryStateMachine, which the marker required, stays)
TerminatedRemoveCall ==
    /\ steps < MaxQueueCalls
    /\ 0 \in terminated
    /\ EngineStep([Engine EXCEPT !.terminated = @ \ {0},
                                 !.state_machine[0] = Terminated_on_remove(@)],
                  QueueCall("remove_terminated"))
    /\ UNCHANGED << schedule, lastEnter >>

\* commands.entity(machine).insert(Terminated) and
\* commands.entity(machine).insert(StationaryStateMachine): user code stops a
\* machine
InsertMarkerCall ==
    /\ schedule = "enter"
    /\ \E m \in DOMAIN state_machines \ stationary, marker \in {"Terminated", "Stationary"} :
           EngineStep(IF marker = "Terminated"
                      THEN insert_Terminated(worlds, Engine, m)
                      ELSE StationaryStateMachine_on_insert(worlds,
                               [Engine EXCEPT !.stationary = @ \cup {m}], m),
                      [NoPass EXCEPT !.kind = "marker", !.before = Engine,
                                     !.order = << m >>])
    /\ UNCHANGED << schedule, lastEnter >>

\* the systems add_system registers for the action, run once: the callback
\* receives curr and returns some of it, or None
HandleActionSystem ==
    /\ ticks < MaxTicks
    /\ ticks' = ticks + 1
    /\ \E returned \in Returns(HsmActionSystemBuffer_get_curr(action_buffer)) :
           /\ action_buffer' = add_system(action_buffer, returned)
           /\ trace' = Append(trace,
                  [m |-> -1, kind |-> "tick",
                   entry |-> [received |-> HsmActionSystemBuffer_get_curr(action_buffer),
                              returned |-> returned]])
    /\ lastPass' = [NoPass EXCEPT !.kind = "action", !.before = Engine]
    /\ UNCHANGED << worlds, state_machines, on_states, terminated, stationary,
                    check_on_transition_states, log, schedule, lastEnter, steps >>
    /\ UNCHANGED << treeVars, iterVars, historyVars, bufferVars, conditionVars >>

\* the orders in which a HashSet can be iterated
Orders(set) ==
    {order \in [1 .. Cardinality(set) -> set] :
        \A i, j \in 1 .. Cardinality(set) : i # j => order[i] # order[j]}

\* the machines that have a current state
Placed == {m \in DOMAIN state_machines : curr_state_id(state_machines[m]) # None}

\* the guards the enter pass can run: the resolvable enter guards of the sub
\* states of the current state of each machine in CheckOnTransitionStates
EnterGuards ==
    UNION {{<< m, c >> :
               c \in Range(collect(worlds[m], curr_state_id(state_machines[m])[1]))} :
           m \in Placed \cap check_on_transition_states}

\* the exit guards whose value matters in this tick: the guard of the current
\* state of each machine that was in CheckOnTransitionStates when the tick began
ExitGuards ==
    {<< m, curr_state_id(state_machines[m])[1] >> :
        m \in Placed \cap (lastEnter.before.check \cup check_on_transition_states)}

\* handle_on_enter_states, the first system of the chain, which runs if
\* CheckOnTransitionStates is not empty
HandleOnEnterStates ==
    /\ schedule = "enter"
    /\ check_on_transition_states # {}
    /\ \E order \in Orders(check_on_transition_states),
          guards \in [EnterGuards -> Outcome] :
           \E r \in {handle_on_enter_states(worlds, Engine, order, guards)} :
               LET p == [kind |-> "enter", before |-> Engine, order |-> order,
                         guards |-> guards, evaluated |-> r.evaluated, scan |-> r.scan]
               IN  EngineStep(r.e, p) /\ lastEnter' = p
    /\ schedule' = "exit"

\* handle_on_exit_states, the second system of the chain
HandleOnExitStates ==
    /\ schedule = "exit"
    /\ \E order \in Orders(check_on_transition_states),
          guards \in [ExitGuards -> Outcome] :
           \E r \in {handle_on_exit_states(worlds, Engine, order, guards)} :
               EngineStep(r.e, [kind |-> "exit", before |-> Engine, order |-> order,
                                guards |-> guards, evaluated |-> r.evaluated,
                                scan |-> r.scan])
    /\ schedule' = "enter"
    /\ UNCHANGED lastEnter


\* ---------------------------------------------------------- specifications
\* the state tree under add and remove
Init ==
    /\ TreeInit({TraversalStrategy_default})
    /\ IterInit
    /\ HistoryInit({DefaultMaxSize})
    /\ BufferInit
    /\ ConditionInit
    /\ EngineInit({NoWorlds})

Next == AddCall \/ RemoveCall

Spec == Init /\ [][Next]_vars

\* the traversal iterator over a tree built by add
InitIter ==
    /\ TreeInit(TraversalStrategy)
    /\ IterInit
    /\ HistoryInit({DefaultMaxSize})
    /\ BufferInit
    /\ ConditionInit
    /\ EngineInit({NoWorlds})

NextIter == IterAddCall \/ TraversalIterCall \/ NextCall \/ NextBackCall

SpecIter == InitIter /\ [][NextIter]_vars

\* the state history under push and clear
InitHistory ==
    /\ TreeInit({TraversalStrategy_default})
    /\ IterInit
    /\ HistoryInit(0 .. MaxCapacity)
    /\ BufferInit
    /\ ConditionInit
    /\ EngineInit({NoWorlds})

NextHistory == PushCall \/ ClearCall

SpecHistory == InitHistory /\ [][NextHistory]_vars

\* the action buffer under its public operations
InitBuffer ==
    /\ TreeInit({TraversalStrategy_default})
    /\ IterInit
    /\ HistoryInit({DefaultMaxSize})
    /\ BufferInit
    /\ ConditionInit
    /\ EngineInit({NoWorlds})

NextBuffer ==
    \/ BufferAddCall
    \/ BufferAddsCall
    \/ BufferAddFilterCall
    \/ BufferAddInterceptorCall
    \/ BufferRemoveInterceptorCall
    \/ BufferReflowCall
    \/ BufferUpdateCall
    \/ BufferUpdateInterceptorCall

SpecBuffer == InitBuffer /\ [][NextBuffer]_vars

\* the action buffer under the action system's ticks and the lifecycle hooks
NextAction == ActionUpdateHookCall \/ ActionExitHookCall \/ ActionSystemCall

SpecAction == InitBuffer /\ [][NextAction]_vars

\* one machine under the transition chain
InitTransition ==
    /\ TreeInit({TraversalStrategy_default})
    /\ IterInit
    /\ HistoryInit({DefaultMaxSize})
    /\ BufferInit
    /\ ConditionInit
    /\ EngineInit({[m \in {0} |-> w] : w \in Worlds})

NextTransition == HandleOnEnterStates \/ HandleOnExitStates

SpecTransition == InitTransition /\ [][NextTransition]_vars

\* one machine whose states may lack a callback, under the transition chain
\* and user code that stops it
InitLifecycle ==
    /\ TreeInit({TraversalStrategy_default})
    /\ IterInit
    /\ HistoryInit({DefaultMaxSize})
    /\ BufferInit
    /\ ConditionInit
    /\ EngineInit({[m \in {0} |-> w] : w \in LifecycleWorlds})

NextLifecycle ==
    \/ HandleOnEnterStates
    \/ HandleOnExitStates
    \/ InsertMarkerCall

SpecLifecycle == InitLifecycle /\ [][NextLifecycle]_vars

\* the steps of the two passes, told by their run conditions and by what they
\* do to the schedule
EnterPassStep ==
    /\ schedule = "enter"
    /\ check_on_transition_states # {}
    /\ steps < MaxSteps
    /\ schedule' = "exit"

ExitPassStep ==
    /\ schedule = "exit"
    /\ steps < MaxSteps
    /\ schedule' = "enter"

\* the same, the schedule running the chain of passes in every tick
SpecLifecycleFair ==
    SpecLifecycle /\ WF_schedule(EnterPassStep) /\ WF_schedule(ExitPassStep)

\* one machine under the transition chain and the action system, each in a
\* schedule of its own
InitTick ==
    /\ TreeInit({TraversalStrategy_default})
    /\ IterInit
    /\ HistoryInit({DefaultMaxSize})
    /\ BufferInit
    /\ ConditionInit
    /\ EngineInit({[m \in {0} |-> w] : w \in TickWorlds})

NextTick ==
    \/ HandleOnEnterStates
    \/ HandleOnExitStates
    \/ HandleActionSystem

SpecTick == InitTick /\ [][NextTick]_vars

\* several machines under the transition chain, some of them defective
InitBatch ==
    /\ TreeInit({TraversalStrategy_default})
    /\ IterInit
    /\ HistoryInit({DefaultMaxSize})
    /\ BufferInit
    /\ ConditionInit
    /\ EngineInit([Machines -> BatchWorlds])

NextBatch == HandleOnEnterStates \/ HandleOnExitStates \/ HistoryClearCall

SpecBatch == InitBatch /\ [][NextBatch]_vars

\* one machine on the (Nested, Death) chain whose pending queue user code fills
InitQueue ==
    /\ TreeInit({TraversalStrategy_default})
    /\ IterInit
    /\ HistoryInit({DefaultMaxSize})
    /\ BufferInit
    /\ ConditionInit
    /\ EngineInit({[m \in {0} |->
                       World(Chain, [s \in States |-> HsmState_with(Nested, Death)], {})]})

NextQueue ==
    \/ PushNextStateCall
    \/ PushNextStatesCall
    \/ InsertOnStateCall
    \/ TerminatedRemoveCall

SpecQueue == InitQueue /\ [][NextQueue]_vars


\* conditions under the builders, the constructors, parse and run
InitCondition ==
    /\ TreeInit({TraversalStrategy_default})
    /\ IterInit
    /\ HistoryInit({DefaultMaxSize})
    /\ BufferInit
    /\ ConditionInit
    /\ EngineInit({NoWorlds})

NextCondition ==
    \/ ConditionNewCall
    \/ ConditionAddAndCall
    \/ ConditionAddOrCall
    \/ ConditionNotCall
    \/ ConditionAndCall
    \/ ConditionOrCall
    \/ ConditionParseCall
    \/ ConditionRunCall

SpecCondition == InitCondition /\ [][NextCondition]_vars


\* ================================================================= claims
\* the states reachable from a through one or more sub_states links
RECURSIVE ReachableVia(_, _, _)
ReachableVia(t, frontier, seen) ==
    LET nxt == UNION {Range(t[x].sub_states) : x \in frontier \cap DOMAIN t} \ seen
    IN  IF nxt = {} THEN seen ELSE ReachableVia(t, nxt, seen \cup nxt)

Descendants(t, a) == ReachableVia(t, {a}, {})

Count(s, e) == Cardinality({i \in 1 .. Len(s) : s[i] = e})

Without(s, e) == LET keep(x) == x # e IN SelectSeq(s, keep)

\* C1: add(b, a, _) with b a descendant of a (a child or deeper) returns false
\* and leaves the tree unchanged.
C1_CycleRejected ==
    (last.op = "add" /\ last.from \in Descendants(before, last.to))
        => (last.ret = "false" /\ tree = before)

\* C2: parent and child links agree: every non-root state is listed by exactly
\* its recorded parent and by no other state, and every listed child is in the
\* tree with the listing state as its parent.
C2_LinksAgree ==
    /\ \A s \in DOMAIN tree :
           Some(s) # Some(root) =>
               /\ tree[s].super_state # None
               /\ \A p \in DOMAIN tree :
                      Contains(tree[p].sub_states, s) <=> tree[s].super_state = Some(p)
               /\ tree[s].super_state[1] \in DOMAIN tree
    /\ \A p \in DOMAIN tree :
           \A c \in Range(tree[p].sub_states) :
               c \in DOMAIN tree /\ tree[c].super_state = Some(p)

\* C3: add(parent, child, _) with parent not in the tree returns false and
\* leaves the tree unchanged.
C3_AbsentParentRejected ==
    (last.op = "add" /\ last.from \notin DOMAIN before)
        => (last.ret = "false" /\ tree = before)

C3_Witness ==
    /\ last.op = "add"
    /\ last.from \notin DOMAIN before
    /\ last.to \notin DOMAIN before
    /\ last.ret = "false"

\* C4: add(s, s, _) for a state s of the tree returns false and leaves the tree
\* unchanged.
C4_SelfLinkRejected ==
    (last.op = "add" /\ last.from = last.to /\ last.from \in DOMAIN before)
        => (last.ret = "false" /\ tree = before)

\* C5: remove(parent, child) with child a child of parent returns a tree rooted
\* at child, without parent link, holding exactly child and its descendants with
\* their child lists; the original tree holds none of them and parent no longer
\* lists child.  With parent not in the tree it returns None and changes nothing.
C5_RemoveDetachesSubtree ==
    last.op = "remove" =>
        /\ has_link(before, last.from, last.to) =>
               /\ last.ret = "Some"
               /\ removed.root = Some(last.to)
               /\ DOMAIN removed.tree = {last.to} \cup Descendants(before, last.to)
               /\ removed.tree[last.to].super_state = None
               /\ \A s \in DOMAIN removed.tree :
                      removed.tree[s].sub_states = before[s].sub_states
               /\ (DOMAIN tree) \cap (DOMAIN removed.tree) = {}
               /\ ~has_link(tree, last.from, last.to)
        /\ last.from \notin DOMAIN before => (last.ret = "None" /\ tree = before)

\* C6: remove(parent, child) with parent in the tree and child not in the tree,
\* or not a child of parent, reports failure through its return value and leaves
\* the tree unchanged.
C6_RemoveReportsFailure ==
    (/\ last.op = "remove"
     /\ last.from \in DOMAIN before
     /\ (last.to \notin DOMAIN before \/ ~has_link(before, last.from, last.to)))
        => (last.ret = "None" /\ tree = before)

\* C7: for every state s of the tree path_iter(s) is finite, does not yield s,
\* yields each state's recorded parent after it, and ends with the root.
C7_PathIterFinite ==
    \A s \in DOMAIN tree :
        LET path == path_iter(tree, s)
        IN  /\ ~path_iter_diverges(tree, s)
            /\ s \notin Range(path)
            /\ (Some(s) # Some(root)) => (path # << >> /\ Some(path[Len(path)]) = Some(root))
            /\ (Some(s) = Some(root)) => path = << >>

\* C8: re-adding an existing (parent, child) pair returns true; the parent then
\* lists child exactly once, at the end, with the other children in their
\* earlier order.
C8_ReAddMovesToEnd ==
    (last.op = "add" /\ has_link(before, last.from, last.to)) =>
        /\ last.ret = "true"
        /\ last.from \in DOMAIN tree
        /\ LET old == before[last.from].sub_states
               new == tree[last.from].sub_states
           IN  /\ Len(new) = Len(old)
               /\ new[Len(new)] = last.to
               /\ Count(new, last.to) = 1
               /\ Without(new, last.to) = Without(old, last.to)

C8_Witness ==
    /\ last.op = "add"
    /\ has_link(before, last.from, last.to)
    /\ last.ret = "true"
    /\ Len(before[last.from].sub_states) >= 2
    /\ before[last.from].sub_states[1] = last.to

\* the children of the iterated node in the order of its strategy
StrategyOrder ==
    LET sub == iterSrc.sub_states
    IN  [i \in 1 .. Len(sub) |->
            IF iterSrc.traversal = SequentialTraversal THEN sub[i] ELSE sub[Len(sub) + 1 - i]]

\* C9: traversal_iter yields the children in the order of the node's strategy
\* (next from the front, next_back from the back); under any interleaving of
\* next and next_back every child is yielded exactly once, None is returned only
\* when all are yielded, and from then on both ends return None.
C9_TraversalOrder ==
    iterSrc.state # None =>
        LET n == Len(iterSrc.sub_states)
            yielded == front \o back
        IN  /\ Len(yielded) <= n
            /\ \A i \in 1 .. Len(front) : front[i] = StrategyOrder[i]
            /\ \A i \in 1 .. Len(back) : back[i] = StrategyOrder[n + 1 - i]
            /\ \A c \in Range(iterSrc.sub_states) : Count(yielded, c) <= 1
            /\ (iterLast.op \in {"next", "next_back"} /\ iterLast.ret = None)
                   => \A c \in Range(iterSrc.sub_states) : Count(yielded, c) = 1
            /\ (\A c \in Range(iterSrc.sub_states) : Count(yielded, c) = 1)
                   => /\ TraversalIter_next(iter).ret = None
                      /\ TraversalIter_next_back(iter).ret = None

C9_Witness ==
    /\ iterSrc.state # None
    /\ iterSrc.traversal = ReverseTraversal
    /\ Len(iterSrc.sub_states) >= 2
    /\ Len(front) >= 1
    /\ Len(back) >= 1
    /\ Len(front) + Len(back) = Len(iterSrc.sub_states)
    /\ iterLast.op = "next_back"
    /\ iterLast.ret = None

\* the last n elements of s (all of s when it is shorter)
LastN(s, n) == IF Len(s) <= n THEN s ELSE SubSeq(s, Len(s) - n + 1, Len(s))

\* C10: a history of capacity N >= 0 never holds more than N entries and holds
\* exactly the last N pushed entries, oldest first.
C10_HistoryBounded ==
    /\ Len(state_history.history) <= state_history.max_size
    /\ state_history.history = LastN(pushed, state_history.max_size)

\* ------------------------------------------------ claims about the buffer
\* the contexts of s that the interceptor set does not hold, in order
NotIntercepted(s, interceptor) ==
    LET pass(x) == x \notin interceptor IN SelectSeq(s, pass)

\* C17: add and adds append a context to next exactly when it is not in the
\* interceptor set at the time of the call, and leave curr, filter and
\* interceptor as they were.
C17_AddRespectsInterceptor ==
    bufLast.op \in {"add", "adds"} =>
        /\ buffer.next = bufBefore.next \o NotIntercepted(bufLast.contexts, bufBefore.interceptor)
        /\ buffer.curr = bufBefore.curr
        /\ buffer.filter = bufBefore.filter
        /\ buffer.interceptor = bufBefore.interceptor

\* an adds call with one intercepted context and one that passes
C17_Witness ==
    /\ bufLast.op = "adds"
    /\ bufLast.contexts[1] \in bufBefore.interceptor
    /\ bufLast.contexts[2] \notin bufBefore.interceptor
    /\ buffer.next = Append(bufBefore.next, bufLast.contexts[2])

\* C18: update sets curr to the previous next without the contexts of the
\* filter set, empties next and the filter set, and leaves the interceptor
\* set as it was.
C18_UpdateSwapsAndFilters ==
    bufLast.op = "update" =>
        /\ buffer.curr = NotIntercepted(bufBefore.next, bufBefore.filter)
        /\ buffer.next = << >>
        /\ buffer.filter = {}
        /\ buffer.interceptor = bufBefore.interceptor

\* an update that filtered one context out of next and kept another
C18_Witness ==
    /\ bufLast.op = "update"
    /\ bufBefore.filter \cap Range(bufBefore.next) # {}
    /\ buffer.curr # << >>
    /\ buffer.filter = {}

\* C19 as stated: after each of two consecutive update calls curr is empty.
C19_BothUpdatesEmpty ==
    (bufLast.op = "update" /\ bufPrev = "update") =>
        (buffer.curr = << >> /\ bufBefore.curr = << >>)

\* C19: after the second of two consecutive update calls, with no call
\* between them, curr is empty (after the first it is the previous next
\* without the filtered contexts).
C19_SecondUpdateEmpty ==
    (bufLast.op = "update" /\ bufPrev = "update") => buffer.curr = << >>

\* two consecutive updates, the first of which left curr non-empty
C19_Witness ==
    /\ bufLast.op = "update"
    /\ bufPrev = "update"
    /\ bufBefore.curr # << >>
    /\ buffer.curr = << >>

\* C20: a call made while a context is in the interceptor set does not
\* append that context to next.
C20_InterceptedNeverAppended ==
    \A c \in bufBefore.interceptor : Count(buffer.next, c) <= Count(bufBefore.next, c)

\* --------------------------------------------- claims about conditions
\* a condition and every condition below it
RECURSIVE Subconditions(_)
Subconditions(c) ==
    {c} \cup UNION {Subconditions(c.conditions[i]) : i \in 1 .. Len(c.conditions)}

\* C11: an And or Or never has fewer than two children: parse rejects a group
\* with fewer than two arguments, the constructors and / or fail on fewer
\* than two conditions, and in every condition built or parsed each And and
\* Or node has at least two children.
C11_AtLeastTwoChildren ==
    /\ parsed.kind \in {"one_and", "one_or", "one_nested", "no_and", "no_or"} => ~parsed.ok
    /\ (condLast.op \in {"and", "or"} /\ Len(condLast.args) < 2) => condLast.ret = "panic"
    /\ \A c \in Subconditions(cond) \cup Subconditions(parsed.cond) :
           c.kind \in {"And", "Or"} => Len(c.conditions) >= 2

\* a well-formed condition wrapped alone in Or(..) inside Not(..) was rejected
C11_Witness ==
    /\ parsed.kind = "one_nested"
    /\ parse(fmt(parsed.src)).ok
    /\ ~parsed.ok

\* invoked of the first k children, in order
RECURSIVE InvokedUpTo(_, _, _)
InvokedUpTo(ids, k, world) ==
    IF k = 0 THEN << >> ELSE InvokedUpTo(ids, k - 1, world) \o run(ids[k], world).invoked

\* C12: And and Or evaluate their children left to right and stop at the first
\* child that decides: And at the first false (result false), Or at the first
\* true (result true), either at the first error (result that error); no
\* child after that one is invoked.
C12_ShortCircuit ==
    (ran.resolved /\ ran.self.kind \in {"And", "Or"}) =>
        LET ids == ran.self.conditions
            decides == IF ran.self.kind = "And" THEN "false" ELSE "true"
            stops == {i \in 1 .. Len(ids) : run(ids[i], ran.world).ret \in {decides, "err"}}
            k == IF stops = {} THEN Len(ids)
                 ELSE CHOOSE i \in stops : \A j \in stops : i <= j
        IN  /\ ran.ret = IF stops # {} THEN run(ids[k], ran.world).ret
                         ELSE IF ran.self.kind = "And" THEN "true" ELSE "false"
            /\ ran.invoked = InvokedUpTo(ids, k, ran.world)

\* And(false_cond, error_cond) returned Ok(false) and ran only false_cond
C12_Witness ==
    /\ ran.resolved
    /\ ran.self.kind = "And"
    /\ Len(ran.self.conditions) = 2
    /\ ran.self.conditions[1].kind = "Id"
    /\ ran.self.conditions[2].kind = "Id"
    /\ ran.world[ran.self.conditions[1].name] = "false"
    /\ ran.world[ran.self.conditions[2].name] = "err"
    /\ ran.ret = "false"
    /\ ran.invoked = << ran.self.conditions[1].name >>

\* C13: Not(c) returns the negation of the result of c, and the error of c
\* when c fails.
C13_NotNegates ==
    (ran.resolved /\ ran.self.kind = "Not") =>
        LET r == run(ran.self.conditions[1], ran.world).ret
        IN  ran.ret = CASE r = "true" -> "false"
                        [] r = "false" -> "true"
                        [] OTHER -> "err"

\* a name of letters, digits and underscores
IsAlphanumericName(name) ==
    /\ name # << >>
    /\ \A i \in 1 .. Len(name) : is_alphanumeric(name[i]) \/ name[i] = "_"

\* a name the lexer reads as one identifier and the parser as a leaf
IsLeafIdentifier(name) ==
    /\ IsAlphanumericName(name)
    /\ is_alphabetic(name[1])
    /\ name \notin {<< "A", "n", "d" >>, << "O", "r" >>, << "N", "o", "t" >>}

\* leaves named by IsName, Not with one child, And and Or with two or more
ValidCondition(c, IsName(_)) ==
    \A n \in Subconditions(c) :
        CASE n.kind = "Id" -> IsName(n.name)
          [] n.kind = "Not" -> Len(n.conditions) = 1
          [] n.kind \in {"And", "Or"} -> Len(n.conditions) >= 2
          [] OTHER -> FALSE

\* C14 as stated: parse(format(c)) = Ok(c) for every condition whose leaves are
\* identifiers (names of letters, digits and underscores).
C14_RoundTripAnyIdentifier ==
    (parsed.kind = "format" /\ ValidCondition(parsed.src, IsAlphanumericName)) =>
        (parsed.ok /\ parsed.cond = parsed.src)

\* C14: parse(format(c)) = Ok(c) for every condition whose leaf names start
\* with a letter, go on with letters, digits and underscores, and are none of
\* And, Or, Not.
C14_RoundTrip ==
    (parsed.kind = "format" /\ ValidCondition(parsed.src, IsLeafIdentifier)) =>
        (parsed.ok /\ parsed.cond = parsed.src)

\* a nested condition with a Not below the root came back from its own text
C14_Witness ==
    /\ parsed.kind = "format"
    /\ ValidCondition(parsed.src, IsLeafIdentifier)
    /\ parsed.src.kind \in {"And", "Or"}
    /\ \E i \in 1 .. Len(parsed.src.conditions) : parsed.src.conditions[i].kind = "Not"
    /\ \E i \in 1 .. Len(parsed.src.conditions) :
           parsed.src.conditions[i].name = << "b", "_", "1" >>
    /\ parsed.ok
    /\ parsed.cond = parsed.src

\* the children an operand brings to a node of a kind: its own children when
\* it is of that kind, itself otherwise
Flattened(kind, c) == IF c.kind = kind THEN c.conditions ELSE << c >>

\* C15: add_and (add_or) of operands of which one or both are already And (Or)
\* gives one And (Or) whose children are the children of the operands, in
\* order.
C15_FlattenEitherSide ==
    /\ (condLast.op = "add_and" /\ \E i \in 1 .. 2 : condLast.args[i].kind = "And") =>
           cond = CombinationCondition_And(
                      Flattened("And", condLast.args[1]) \o Flattened("And", condLast.args[2]))
    /\ (condLast.op = "add_or" /\ \E i \in 1 .. 2 : condLast.args[i].kind = "Or") =>
           cond = CombinationCondition_Or(
                      Flattened("Or", condLast.args[1]) \o Flattened("Or", condLast.args[2]))

\* C16: a text with an identifier other than And, Or, Not used as an operator,
\* at the top or nested, or with an unterminated group, is rejected as a
\* whole: parse returns an error and no condition.
C16_MalformedRejected ==
    (\/ /\ parsed.kind \in {"op", "op_nested", "op_gap", "op_gap_nested"}
        /\ ValidCondition(parsed.src, IsLeafIdentifier)
     \/ parsed.kind = "unterminated") =>
        (~parsed.ok /\ parsed.cond = NoCondition)


\* ---- the action system's ticks
\* the last step was a tick in which the action callback ran
CallbackRan == bufLast.op = "action_system" /\ bufBefore.curr # << >>

\* C21: every context the action callback returned is in
\* curr on the next tick, unless a filter set before that tick removed it
C21_ReturnedRunNextTick ==
    CallbackRan =>
        \A c \in Range(bufLast.contexts) :
            Contains(buffer.curr, c) \/ c \in bufBefore.filter

\* ---- the transition engine
\* what the last system run added to the trace and to the log
PassTrace == SubSeq(trace, Len(lastPass.before.trace) + 1, Len(trace))
PassLog == SubSeq(log, Len(lastPass.before.log) + 1, Len(log))

\* the events of one kind that the last system run added for machine m
PassEvents(m, kind) ==
    LET mine(x) == x.m = m /\ x.kind = kind
        picked == SelectSeq(PassTrace, mine)
    IN  [i \in 1 .. Len(picked) |-> picked[i].entry]

\* the kinds of the events that the last system run added for machine m
PassKinds(m) ==
    LET mine(x) == x.m = m
        picked == SelectSeq(PassTrace, mine)
    IN  [i \in 1 .. Len(picked) |-> picked[i].kind]

\* the states whose guard the last pass ran for machine m, in the order run
EvaluatedOf(m) ==
    LET mine(x) == x[1] = m
        picked == SelectSeq(lastPass.evaluated, mine)
    IN  [i \in 1 .. Len(picked) |-> picked[i][2]]

\* the current state of machine m when the last system started
StateBefore(m) == curr_state_id(lastPass.before.state_machine[m])[1]

\* the sub states of the state machine m was in whose enter guard can be run
Guarded(m) ==
    LET has(c) == << m, c >> \in DOMAIN lastPass.guards
    IN  SelectSeq(worlds[m].sub_states[StateBefore(m)], has)

\* machine m was evaluated by the last enter pass and a sub state won
Won(m) ==
    /\ lastPass.kind = "enter"
    /\ EvaluatedOf(m) # << >>
    /\ lastPass.guards[<< m, EvaluatedOf(m)[Len(EvaluatedOf(m))] >>] = "true"

Winner(m) == EvaluatedOf(m)[Len(EvaluatedOf(m))]

C23_WinByStrategy ==
    \A m \in DOMAIN state_machines :
        Won(m) =>
            LET parent == StateBefore(m)
                child == Winner(m)
                old == lastPass.before.state_machine[m]
                new == state_machines[m]
                mine(x) == x[1] = m
            IN  IF worlds[m].hsm_state[parent][1].strategy = Nested
                THEN /\ new.history.history =
                            LastN(old.history.history \o << child >>, old.history.max_size)
                     /\ PassEvents(m, "insert")[1] = << child, "Enter" >>
                     /\ PassEvents(m, "queue") = << >>
                     /\ new.next_state = old.next_state
                     /\ SelectSeq(PassLog, mine) = << << m, child, "Enter" >> >>
                ELSE /\ new.history.history =
                            LastN(old.history.history \o << parent, child >>,
                                  old.history.max_size)
                     /\ PassEvents(m, "queue") = << NextState_Next(child, "Enter") >>
                     /\ PassEvents(m, "insert")[1] = << parent, "Exit" >>
                     /\ SelectSeq(PassLog, mine) =
                            << << m, parent, "Exit" >>, << m, child, "Enter" >> >>

\* a sub state won under a Parallel parent that was entered under one as well
C23_Witness ==
    /\ Won(0)
    /\ worlds[0].hsm_state[StateBefore(0)][1].strategy = Parallel
    /\ StateBefore(0) # 0

\* machine m was flagged when the last pass started and nothing kept the pass
\* from running a guard for it: it has a current state, the state has its
\* components and a guard that resolves
Checkable(m) ==
    LET e == lastPass.before
        curr == curr_state_id(e.state_machine[m])
        w == worlds[m]
    IN  /\ m \in e.check
        /\ m \notin e.stationary
        /\ curr # None
        /\ w.hsm_state[curr[1]] # None
        /\ IF lastPass.kind = "enter"
           THEN \E i \in 1 .. Len(w.sub_states[curr[1]]) :
                    /\ w.on_enter_condition[w.sub_states[curr[1]][i]] = "resolved"
                    /\ w.hsm_state[w.sub_states[curr[1]][i]] # None
           ELSE /\ w.super_state[curr[1]] # None
                /\ w.on_exit_condition[curr[1]] = "resolved"

\* C24: in the enter pass and in the exit pass a machine whose current state
\* cannot be found, whose state lacks its component or whose guard does not
\* resolve is skipped alone: a guard is run for every other checkable machine
C24_FailuresLocal ==
    lastPass.kind \in {"enter", "exit"} =>
        \A m \in DOMAIN state_machines : Checkable(m) => EvaluatedOf(m) # << >>

\* machine m began the tick of the last exit pass flagged and in Update in a
\* state that is not the root and has an exit guard, no sub state of which
\* could be entered in the enter pass, and the exit guard is true in this tick
ExitDue(m) ==
    LET e == lastEnter.before
        curr == curr_state_id(e.state_machine[m])
        w == worlds[m]
    IN  /\ lastPass.kind = "exit"
        /\ m \in e.check /\ m \notin e.stationary
        /\ e.on_state[m] = "Update"
        /\ curr # None
        /\ w.super_state[curr[1]] # None
        /\ w.hsm_state[curr[1]] # None
        /\ w.on_exit_condition[curr[1]] = "resolved"
        /\ \A c \in Range(w.sub_states[curr[1]]) :
               << m, c >> \in DOMAIN lastEnter.guards => lastEnter.guards[<< m, c >>] # "true"
        /\ << m, curr[1] >> \in DOMAIN lastPass.guards
        /\ lastPass.guards[<< m, curr[1] >>] = "true"

\* C25: a machine in Update in a state that is not the root, whose exit guard
\* is true and none of whose sub states can be entered (sub states without
\* any enter guard included), is moved to Exit by the exit pass: in the tick
\* itself, or later, for which it has to stay in CheckOnTransitionStates
C25_ExitsWhenNothingToEnter ==
    \A m \in DOMAIN state_machines :
        ExitDue(m) =>
            \/ /\ PassEvents(m, "insert") # << >>
               /\ PassEvents(m, "insert")[1] = << StateBefore(m), "Exit" >>
            \/ m \in check_on_transition_states

\* the last exit pass moved machine m to Exit: its exit guard gave true and
\* the pending entries were queued
Exited(m) ==
    /\ lastPass.kind = "exit"
    /\ EvaluatedOf(m) # << >>
    /\ lastPass.guards[<< m, StateBefore(m) >>] = "true"
    /\ worlds[m].hsm_state[worlds[m].super_state[StateBefore(m)][1]] # None

\* the pending entries that the last exit pass queued for machine m
Queued(m) == PassEvents(m, "queue")

RECURSIVE Ancestors(_, _)
\* the ancestors of state s, its parent first
Ancestors(w, s) ==
    IF w.super_state[s] = None THEN << >>
    ELSE << w.super_state[s][1] >> \o Ancestors(w, w.super_state[s][1])

\* the first state of a sequence of states whose behavior is not Death
FirstReviving(w, states) ==
    LET revives(a) == w.hsm_state[a] # None /\ w.hsm_state[a][1].behavior # Death
        picked == SelectSeq(states, revives)
    IN  IF picked = << >> THEN None ELSE Some(picked[1])

\* C26: exit resolution stops at the first ancestor, the parent of the exiting
\* state first, whose behavior is Resurrection or Rebirth: the last entry
\* queued is (that ancestor, Update) or (that ancestor, Enter), and no state
\* above that ancestor is queued
C26_StopsAtFirstReviving ==
    \A m \in DOMAIN state_machines :
        Exited(m) =>
            LET w == worlds[m]
                first == FirstReviving(w, Ancestors(w, StateBefore(m)))
                q == Queued(m)
            IN  first # None =>
                    /\ q # << >>
                    /\ q[Len(q)] = NextState_Next(first[1],
                                       HsmOnState_from(w.hsm_state[first[1]][1].behavior))
                    /\ \A i \in 1 .. Len(q) :
                           q[i] # NextState_None =>
                               q[i][1] \notin Range(Ancestors(w, first[1]))

\* every ancestor of state s has the given strategy and the behavior Death
AncestorsDie(w, s, strategy) ==
    \A a \in Range(Ancestors(w, s)) :
        w.hsm_state[a] = Some(HsmState_with(strategy, Death))

\* the callbacks of machine m that the last system run logged
PassLogOf(m) ==
    LET mine(x) == x[1] = m
    IN  SelectSeq(PassLog, mine)

\* the exit callbacks of a sequence of states of machine m, as the log has them
Exits(m, states) == [i \in 1 .. Len(states) |-> << m, states[i], "Exit" >>]

\* C27: when a state exits and every ancestor up to the root is (Nested,
\* Death), the exit pass runs the exit callback of the state and then the
\* exit callback of every ancestor, the parent first and the root last, each
\* once and with no enter callback in between; on the chain entered from OFF
\* to ON1 the log is OFF Enter, ON0 Enter, ON1 Enter, ON1 Exit, ON0 Exit,
\* OFF Exit
C27_NestedDeathUnwinds ==
    \A m \in DOMAIN state_machines :
        (Exited(m) /\ AncestorsDie(worlds[m], StateBefore(m), Nested)) =>
            /\ PassLogOf(m) =
                   Exits(m, << StateBefore(m) >> \o Ancestors(worlds[m], StateBefore(m)))
            /\ (/\ Ancestors(worlds[m], StateBefore(m)) = << 1, 0 >>
                /\ lastPass.before.log =
                       << << m, 0, "Enter" >>, << m, 1, "Enter" >>, << m, 2, "Enter" >> >>) =>
                   log = << << m, 0, "Enter" >>, << m, 1, "Enter" >>, << m, 2, "Enter" >>,
                            << m, 2, "Exit" >>, << m, 1, "Exit" >>, << m, 0, "Exit" >> >>

\* ON1 exited on the (Nested, Death) chain after OFF, ON0 and ON1 were entered
C27_Witness ==
    /\ Exited(0)
    /\ AncestorsDie(worlds[0], StateBefore(0), Nested)
    /\ Ancestors(worlds[0], StateBefore(0)) = << 1, 0 >>
    /\ Len(log) = 6
    /\ log[6] = << 0, 0, "Exit" >>

\* C28: when a state exits and every ancestor up to the root is (Parallel,
\* Death), the exit pass runs the exit callback of the state and no callback
\* of an ancestor, and the machine becomes Terminated: the log ends with the
\* exit of the state (ON1 Exit on the chain of three states)
C28_ParallelDeathTerminates ==
    \A m \in DOMAIN state_machines :
        (Exited(m) /\ AncestorsDie(worlds[m], StateBefore(m), Parallel)) =>
            /\ PassLogOf(m) = Exits(m, << StateBefore(m) >>)
            /\ log[Len(log)] = << m, StateBefore(m), "Exit" >>
            /\ Queued(m) = << NextState_None >>
            /\ m \in terminated
            /\ m \notin lastPass.before.terminated

\* ON1 exited on the (Parallel, Death) chain
C28_Witness ==
    /\ Exited(0)
    /\ AncestorsDie(worlds[0], StateBefore(0), Parallel)
    /\ Ancestors(worlds[0], StateBefore(0)) = << 1, 0 >>
    /\ log[Len(log)] = << 0, 2, "Exit" >>
    /\ 0 \in terminated

\* the states of machine m are OFF, ON1 and ON2 of the scenario: a chain whose
\* first three states are all (Nested, Death)
ScenarioWorld(m) ==
    /\ Ancestors(worlds[m], 2) = << 1, 0 >>
    /\ \A s \in {0, 1, 2} : worlds[m].hsm_state[s] = Some(HsmState_with(Nested, Death))

\* the drive of the scenario has just ended for machine m: the enter guards
\* held until ON2 was entered, no exit guard held before, and the last exit
\* pass found the exit guard of ON2 true
ScenarioDriven(m) ==
    /\ ScenarioWorld(m)
    /\ Exited(m)
    /\ lastPass.before.state_machine[m].history.history = << 0, 1, 2 >>
    /\ lastPass.before.log =
           << << m, 0, "Enter" >>, << m, 1, "Enter" >>, << m, 2, "Enter" >> >>

\* the log of the scenario up to the exits of ON2 and ON1
ScenarioLog(m) ==
    << << m, 0, "Enter" >>, << m, 1, "Enter" >>, << m, 2, "Enter" >>,
       << m, 2, "Exit" >>, << m, 1, "Exit" >> >>

\* C29 as stated: the scenario's log is OFF:Enter, ON1:Enter, ON2:Enter,
\* ON2:Exit, ON1:Exit, OFF:Enter
C29_ScenarioLogAsStated ==
    \A m \in DOMAIN state_machines :
        ScenarioDriven(m) => log = Append(ScenarioLog(m), << m, 0, "Enter" >>)

\* C29: the scenario's log is OFF:Enter, ON1:Enter, ON2:Enter, ON2:Exit,
\* ON1:Exit, OFF:Exit: the root is exited, not entered again
C29_ScenarioLog ==
    \A m \in DOMAIN state_machines :
        ScenarioDriven(m) => log = Append(ScenarioLog(m), << m, 0, "Exit" >>)

\* the scenario was driven to its end: the machine is left in OFF
C29_Witness ==
    /\ ScenarioDriven(0)
    /\ curr_state_id(state_machines[0]) = Some(0)
    /\ state_machines[0].next_state = << >>

\* ---- the pending queue
\* the entries of the events of machine m whose kind is one of kinds, in the
\* order in which they happened since the machine was spawned
TraceEvents(m, kinds) ==
    LET mine(x) == x.m = m /\ x.kind \in kinds
        picked == SelectSeq(trace, mine)
    IN  [i \in 1 .. Len(picked) |-> picked[i].entry]

\* C30: the pending queue is FIFO: the entries consumed so far (by the Exit
\* hook's pop and by the Enter hook's update) are, in the order in which they
\* were consumed, the entries queued first, in the order in which they were
\* queued
C30_ConsumedInQueuedOrder ==
    \A m \in DOMAIN state_machines :
        LET queued == TraceEvents(m, {"queue"})
            consumed == TraceEvents(m, {"pop", "update"})
        IN  /\ Len(consumed) <= Len(queued)
            /\ consumed = SubSeq(queued, 1, Len(consumed))

\* ---- termination
\* the exit callbacks of machine m that the last system run logged
PassExits(m) ==
    LET exit(x) == x[3] = "Exit"
    IN  SelectSeq(PassLogOf(m), exit)

\* in the last system run an exit callback of machine m was followed by a
\* pop_next_state that found the pending queue empty: every exit callback is
\* followed by one pop, and a pop that finds an entry leaves a "pop" event
ExitOnEmptyQueue(m) == Len(PassExits(m)) > Len(PassEvents(m, "pop"))

\* C31: a machine becomes Terminated exactly when the pending queue is found
\* empty after an exit callback: in every pass, the machines that became
\* Terminated are those for which the queue was found empty
C31_TerminatedIffQueueEmpty ==
    lastPass.kind \in {"enter", "exit"} =>
        \A m \in DOMAIN state_machines :
            (m \in terminated /\ m \notin lastPass.before.terminated)
                <=> ExitOnEmptyQueue(m)

\* the last call cleared the Terminated marker of machine 0
Cleared == lastPass.kind = "remove_terminated"

\* C32: when the Terminated marker is cleared, whatever the history and the
\* queue were, the pending queue is empty afterwards and the current state is
\* the initial state
C32_ClearedResets ==
    Cleared =>
        /\ state_machines[0].next_state = << >>
        /\ curr_state_id(state_machines[0]) = Some(state_machines[0].initial_state)

\* the marker was cleared on a machine that had entries pending and was in
\* a state other than its initial state
C32_Witness ==
    /\ Cleared
    /\ lastPass.before.state_machine[0].next_state # << >>
    /\ curr_state_id(lastPass.before.state_machine[0]) # Some(state_machines[0].initial_state)
    /\ state_machines[0].next_state = << >>

\* C33: when the Terminated marker is cleared the history is wiped: it holds
\* the initial state the clearing records and no entry recorded before
C33_ClearedWipesHistory ==
    Cleared =>
        state_machines[0].history.history = << state_machines[0].initial_state >>

\* ---- the lifecycle phases
\* what happened to machine m so far, in order
MachineTrace(m) ==
    LET mine(x) == x.m = m
    IN  SelectSeq(trace, mine)

\* the i-th event of t sets the phase
SetsPhase(t, i, phases) ==
    t[i].kind = "insert" /\ Len(t[i].entry) = 2 /\ t[i].entry[2] \in phases

\* the index of the first phase change of t after the i-th event, or Len(t) + 1
NextInsert(t, i) ==
    LET later == {j \in (i + 1) .. Len(t) : t[j].kind = "insert"}
    IN  IF later = {} THEN Len(t) + 1 ELSE CHOOSE j \in later : \A k \in later : j <= k

\* the callbacks run for the phase change that is the i-th event of t
CallbacksOf(t, i) ==
    LET called(x) == x.kind = "callback"
        picked == SelectSeq(SubSeq(t, i + 1, NextInsert(t, i) - 1), called)
    IN  [k \in 1 .. Len(picked) |-> picked[k].entry]

\* the current state of the machine in the phase set by the i-th event of t:
\* setting Enter first moves the machine to the state at the head of its queue
PhaseState(t, i) ==
    IF /\ t[i].entry[2] = "Enter"
       /\ i < Len(t)
       /\ t[i + 1].kind = "update"
       /\ t[i + 1].entry # NextState_None
    THEN t[i + 1].entry[1]
    ELSE t[i].entry[1]

\* state s of world w has a callback for the phase
HasCallback(w, s, phase) ==
    IF phase = "Enter" THEN w.on_enter_system[s] = "registered"
    ELSE w.on_exit_system[s] = "registered"

\* the callbacks due for the phase change that is the i-th event of t
CallbacksDue(w, t, i) ==
    IF HasCallback(w, PhaseState(t, i), t[i].entry[2])
    THEN << << PhaseState(t, i), t[i].entry[2] >> >>
    ELSE << >>

\* C34: each time the phase of a machine is set to Enter (resp. Exit), the
\* enter (resp. exit) callback of the machine's current state, if it has one,
\* runs exactly once, and no other enter or exit callback runs for that phase
\* change
C34_OneCallbackPerPhase ==
    \A m \in DOMAIN state_machines :
        \A i \in 1 .. Len(MachineTrace(m)) :
            SetsPhase(MachineTrace(m), i, {"Enter", "Exit"}) =>
                CallbacksOf(MachineTrace(m), i) = CallbacksDue(worlds[m], MachineTrace(m), i)

\* a pass took machine 0 through an Exit and an Enter phase, each with its
\* callback run
C34_Witness ==
    /\ lastPass.kind \in {"enter", "exit"}
    /\ \E i, j \in 1 .. Len(PassLogOf(0)) :
           /\ i < j
           /\ PassLogOf(0)[i][3] = "Exit"
           /\ PassLogOf(0)[j][3] = "Enter"
    /\ << >> \notin {CallbacksOf(MachineTrace(0), i) :
                        i \in {k \in 1 .. Len(MachineTrace(0)) :
                                  SetsPhase(MachineTrace(0), k, {"Enter", "Exit"})}}

\* the last system run was one of the two passes
PassRan == lastPass.kind \in {"enter", "exit"}

\* C35: a pass never runs a guard of a machine that carries the Terminated or
\* the stationary marker, and never changes its phase, history or pending queue
C35_StationaryUntouched ==
    PassRan =>
        \A m \in lastPass.before.stationary :
            /\ EvaluatedOf(m) = << >>
            /\ on_states[m] = lastPass.before.on_state[m]
            /\ state_machines[m] = lastPass.before.state_machine[m]

\* a pass ran over a machine in CheckOnTransitionStates that carries the
\* marker and is in a state whose guard the pass could run
C35_Witness ==
    /\ PassRan
    /\ 0 \in lastPass.before.stationary
    /\ 0 \in lastPass.before.check
    /\ lastPass.before.on_state[0] = "Update"
    /\ \E g \in DOMAIN lastPass.guards : g[1] = 0 /\ lastPass.guards[g] = "true"

\* C38: every time the phase of a machine becomes Update, the machine is put
\* into CheckOnTransitionStates
C38_UpdateFlags ==
    \A m \in DOMAIN state_machines :
        \A i \in 1 .. Len(MachineTrace(m)) :
            SetsPhase(MachineTrace(m), i, {"Update"}) =>
                /\ i < Len(MachineTrace(m))
                /\ MachineTrace(m)[i + 1].kind = "flag"

\* machine 0 is in the Exit phase of state s and not Terminated
Exiting(s) ==
    /\ on_states[0] = "Exit"
    /\ curr_state_id(state_machines[0]) = Some(s)
    /\ 0 \notin terminated

\* the run has reached the number of steps that are followed, or user code
\* has stopped the machine
CutShort == steps = MaxSteps \/ 0 \in stationary

\* C39: a machine placed in Enter eventually reaches Update, and a machine
\* placed in Exit of a state eventually reaches its next phase, with or
\* without callbacks (in a run that is not cut short before)
C39_PhasesProgress ==
    /\ (on_states[0] = "Enter" /\ ~CutShort) ~> (on_states[0] = "Update" \/ CutShort)
    /\ \A s \in States : (Exiting(s) /\ ~CutShort) ~> (~Exiting(s) \/ CutShort)

\* ---- the interceptor
\* C37: update_interceptor adds to the interceptor exactly the contexts that
\* are in curr and not in next, and nothing when curr and next are equal
C37_InterceptsDropped ==
    bufLast.op = "update_interceptor" =>
        buffer.interceptor =
            bufBefore.interceptor
                \cup {x \in Range(bufBefore.curr) : ~Contains(bufBefore.next, x)}

\* ---- the action of a state
\* the last system run was the action system
TickRan == lastPass.kind = "action"

\* the events of machine m among those of t
TraceOf(t, m) ==
    LET mine(x) == x.m = m
    IN  SelectSeq(t, mine)

\* the phase changes of a machine's events t into Update or Exit of state s
PhasesIn(t, s) ==
    {i \in 1 .. Len(t) : SetsPhase(t, i, {"Update", "Exit"}) /\ t[i].entry[1] = s}

\* by the events t, the machine has entered the Exit phase of s and has not
\* been in Update in s since
StoppedIn(t, s) ==
    /\ PhasesIn(t, s) # {}
    /\ t[CHOOSE i \in PhasesIn(t, s) : \A j \in PhasesIn(t, s) : i >= j].entry[2] = "Exit"

\* C36: after a machine entered the Exit phase of state s, its context for s
\* is in curr at no tick until the machine is in Update in s again
C36_ExitStopsAction ==
    TickRan =>
        \A c \in Range(lastPass.before.buffer.curr) :
            ~StoppedIn(TraceOf(lastPass.before.trace, c.state_machine), c.state)

\* the phase changes of machine 0 among the events t
Inserts(t) == {l \in 1 .. Len(t) : t[l].m = 0 /\ t[l].kind = "insert"}

\* by the events t, the callback returned None for the context c of machine 0
\* in s, the machine then exited s, and it has come to be in Update in s again
\* since the last tick
Restarted(t, s, c) ==
    /\ Inserts(t) # {}
    /\ \E k \in {l \in Inserts(t) : \A x \in Inserts(t) : l >= x} :
           /\ t[k].entry = << s, "Update" >>
           /\ \A l \in (k + 1) .. Len(t) : t[l].kind # "tick"
           /\ \E j \in Inserts(t) :
                  /\ j < k
                  /\ t[j].entry = << s, "Exit" >>
                  /\ \E i \in 1 .. (j - 1) :
                         /\ t[i].kind = "tick"
                         /\ Contains(t[i].entry.received, c)
                         /\ t[i].entry.returned = << >>

\* C40: when the action callback returned None for the context of a machine
\* in s, and the machine then exits s and is in Update in s again, the context
\* is in curr after the following tick
C40_RestartsAfterReentry ==
    TickRan =>
        \A s \in worlds[0].on_update_system :
            Restarted(lastPass.before.trace, s, context_of(0, s)) =>
                Contains(action_buffer.curr, context_of(0, s))

====
